---------------------------- MODULE Spec2Model ----------------------------
(***************************************************************************)
(* Frame capture-and-delivery pipeline of bevy_streaming.                  *)
(*                                                                         *)
(* lib.rs (StreamerPlugin::build) wires a render-graph node CaptureDriver  *)
(* and two render-world systems, receive_image_from_buffer and             *)
(* release_mapped_buffers, to a worker created by spawn_worker.  The       *)
(* specifications given are:                                               *)
(*   PoolSpec   - the Buffer Pool operations acquire_free / release on one *)
(*                CapturePool of any size and in any state;                *)
(*   Spec       - the triple-buffered pipeline (scheduler, readback        *)
(*                completion, delivery worker, release drain);             *)
(*   FairSpec   - Spec with the fairness of a running render loop, device  *)
(*                and worker;                                              *)
(*   DriverSpec - the render-graph node CaptureDriver::run as it stands in *)
(*                capture/driver.rs;                                       *)
(*   SigSpec    - the signaller of ue_pixelstreaming/signaller/imp.rs: its *)
(*                connect task, send-loop, receive-loop, start and stop;   *)
(*   DecodeSpec - the control-channel decoder of ue_pixelstreaming/        *)
(*                message.rs applied to packets and to encoded MouseMoves; *)
(*   ChannelSpec- the data-channel callback of ue_pixelstreaming/          *)
(*                handler.rs feeding the host's input queue.               *)
(* The variables of a part that a specification does not exercise stay at  *)
(* their initial value in it.                                              *)
(***************************************************************************)
EXTENDS Integers, Sequences, FiniteSets, TLC

VARIABLES
    \* ---- one CapturePool taken alone (PoolSpec)
    pn,         \* number of slots N of the pool
    pin,        \* in_use flag of each slot, 0..N-1
    pcur,       \* "current index" cursor
    pskip,      \* "skip" flag
    pret,       \* what the last acquire_free returned (NoSlot for None)
    ppre,       \* the in_use flags as they were when the last operation began
    pop,        \* the last operation: "new", "any", "acquire", "release"
    pfresh,     \* the pool started as constructed and phist holds all that followed
    phist,      \* while pfresh: the operations since construction, oldest first
    \* ---- the pipeline (Spec, FairSpec)
    enabled,    \* Capture.enabled of each target (shared atomic)
    in_use,     \* in_use[t][i]
    current,    \* current[t]
    skip,       \* skip[t]
    dev,        \* device-side map state of buffer i of target t
    jobs,       \* the worker's job queue (tx_job), oldest first
    worker,     \* the job the Delivery Worker holds, or NoJob
    releases,   \* the release-signal queue (rx_release), oldest first
    phase,      \* where the render tick stands
    lastAcq,    \* outcome of acquire_free for t in the tick under way
    noneRun,    \* consecutive ticks, up to this one, on which it returned None
    claims,     \* number of slots of t claimed and not yet set free
    errs,       \* the error last reported for target t in the tick under way
    \* ---- CaptureDriver::run of capture/driver.rs (DriverSpec)
    capEnabled, \* Capture.enabled of each capture of the Captures resource
    texOk,      \* gpu_images holds the source image of capture t
    memOk,      \* the device exports the memory of capture t as a dma-buf
    sinkOk,     \* the appsrc of capture t accepts buffers
    drvDone,    \* captures whose frame the last run pushed
    drvState,   \* "idle", "ok" (run returned Ok), or the panic that ended it
    \* ---- the signaller (SigSpec)
    settings_id,            \* settings.streamer_id, an Option
    streamer_id,            \* state.streamer_id, an Option
    websocket_sender,       \* state.websocket_sender: NoTask or a connection
    connect_task_handle,    \* state.connect_task_handle: NoTask or a task
    send_task_handle,       \* state.send_task_handle
    receive_task_handle,    \* state.receive_task_handle
    producers,              \* state.producers
    medias,                 \* the recorded mid list
    nstarts,                \* connect tasks spawned so far
    connectPc,              \* where each connect task is
    recvPc,                 \* where each receive-loop is
    recvMsg,                \* the message a receive-loop is handling
    sendPc,                 \* where each send-loop is
    chan,                   \* outbound channel of each connection
    chanClosed,             \* whether that channel has been closed
    spawned,                \* tasks spawned by send(), not yet run
    stopPc,                 \* where the caller of stop() is
    stopJoin,               \* the handles stop() took
    confirmed,              \* connections on which endpointIdConfirm came
    ended,                  \* players whose session has been ended
    garbled,                \* connections that received a malformed frame
    running,                \* start() called and no stop() returned since
    last,                   \* what the latest operation did
    sessions,               \* players connected and not gone since
    sdp_of,                 \* per session, the description last sent for it
    pending_room,           \* how many tasks of send() may wait to be run
    \* ---- the control-channel decoder (DecodeSpec)
    sample,                 \* the MouseMove to encode, or NoSample
    data,                   \* the bytes handed to UeMessage::try_from
    decoded,                \* what it returned, or NotDecoded
    \* ---- the data-channel callback (ChannelSpec)
    packets,                \* the packets the data channel delivered so far
    message_receiver,       \* the channel behind message_receiver
    events,                 \* the messages the host took from it
    warned,                 \* the warnings logged
    \* ---- the handler registry of a controller (RegistrySpec)
    add_remove_handlers,    \* the (peer id, Option<handler>) events queued
    handlers,               \* the registry: pairs of a peer id and a handler
    made,                   \* handlers constructed so far, numbered 1..made
    inbox,                  \* per handler, the channel of its message_receiver
    dropped,                \* handlers dropped, their receiver with them
    arrived,                \* per handler, the packets its data channel gave
    consumed,               \* per handler, the messages the host translated
    recent,                 \* per peer, the handler of the last event applied
    panicked,               \* a callback has panicked
    \* ---- the Delivery Worker taken alone (WorkerSpec)
    job_queue,              \* the ReadbackJobs sent and not yet received
    jobs_closed,            \* the job queue has been closed
    wpc,                    \* the worker: "recv", "emit" or "stopped"
    wjob,                   \* the job the worker holds, or NoJob
    release_queue,          \* the ReleaseSignals emitted and not yet drained
    release_closed,         \* the release-signal channel has been closed
    wlog,                   \* the pushes and emissions of the worker, in order
    wsent                   \* the jobs sent to the worker, in order

poolVars == <<pn, pin, pcur, pskip, pret, ppre, pop, pfresh, phist>>
pipeVars == <<in_use, current, skip, dev, jobs, worker, releases, phase,
              lastAcq, noneRun, claims, errs>>
drvVars  == <<capEnabled, texOk, memOk, sinkOk, drvDone, drvState>>
sigVars  == <<settings_id, streamer_id, websocket_sender, connect_task_handle,
              send_task_handle, receive_task_handle, producers, medias,
              nstarts, connectPc, recvPc, recvMsg, sendPc, chan, chanClosed,
              spawned, stopPc, stopJoin, confirmed, ended, garbled, running,
              last, sessions, sdp_of, pending_room>>
chanVars == <<sample, data, decoded, packets, message_receiver, events,
              warned>>
regVars  == <<add_remove_handlers, handlers, made, inbox, dropped, arrived,
              consumed, recent, panicked>>
msgVars  == <<chanVars, regVars>>
wrkVars  == <<job_queue, jobs_closed, wpc, wjob, release_queue,
              release_closed, wlog, wsent>>
hostVars == <<poolVars, enabled, pipeVars, drvVars, msgVars, wrkVars,
              pending_room>>
restVars == <<hostVars, sessions, sdp_of>>
vars     == <<poolVars, enabled, pipeVars, drvVars, sigVars, msgVars, wrkVars>>

--------------------------------------------------------------------------
(* Bounds and constants *)

PoolSize    == 3        \* N = 3, triple buffering
MaxPoolSize == 3        \* largest pool PoolSpec tries
MaxHist     == 6        \* operations PoolSpec remembers
MaxRun      == 2        \* consecutive dropped frames counted
NumTargets  == 1        \* CaptureTargets of the pipeline
NumCaptures == 2        \* captures the render-graph node runs over

NoSlot == -1            \* acquire_free's None

Targets  == 1 .. NumTargets
Captures == 1 .. NumCaptures
Slots   == 0 .. (PoolSize - 1)

Min(S) == CHOOSE x \in S : \A y \in S : x <= y

--------------------------------------------------------------------------
(* 4.1 Buffer Pool *)

\* A scan that starts at the cursor itself instead of just after it.
AcquireFreeFromCursor(inuse, cur, n) ==
    LET free == { k \in 0 .. (n - 1) : ~inuse[(cur + k) % n] }
    IN  IF free = {} THEN NoSlot ELSE (cur + Min(free)) % n

\* A scan that takes the slot after the cursor without testing in_use.
AcquireFreeUnchecked(inuse, cur, n) == (cur + 1) % n

\* A scan that returns the free slot farthest from the cursor.
AcquireFreeFarthest(inuse, cur, n) ==
    LET free == { k \in 1 .. n : ~inuse[(cur + k) % n] }
    IN  IF free = {} THEN NoSlot ELSE (cur - Min({n - k : k \in free})) % n

\* acquire_free: scan cur+1, cur+2, ..., cur+n (mod n); the first slot whose
\* in_use is false wins; None when all n are busy.
AcquireFree(inuse, cur, n) ==
    LET free == { k \in 1 .. n : ~inuse[(cur + k) % n] }
    IN  IF free = {} THEN NoSlot ELSE (cur + Min(free)) % n

\* A claim that leaves the skip flag as it finds it when no slot is free.
ClaimWithoutSkip(inuse, cur, sk, n) ==
    LET i == AcquireFree(inuse, cur, n)
    IN  IF i = NoSlot
        THEN [in_use |-> inuse, current |-> cur, skip |-> sk, got |-> NoSlot]
        ELSE [in_use |-> [inuse EXCEPT ![i] = TRUE], current |-> i,
              skip |-> FALSE, got |-> i]

\* The pool after the scheduler's attempt to claim a slot:
\* in_use, current and skip.
Claim(inuse, cur, sk, n) ==
    LET i == AcquireFree(inuse, cur, n)
    IN  IF i = NoSlot
        THEN [in_use |-> inuse, current |-> cur, skip |-> TRUE, got |-> NoSlot]
        ELSE [in_use |-> [inuse EXCEPT ![i] = TRUE], current |-> i,
              skip |-> FALSE, got |-> i]

\* release(pool, index)
Release(inuse, i) == [inuse EXCEPT ![i] = FALSE]

\* A constructed pool: every slot free; the first scan starts at slot 0.
NewCursor(n) == n - 1

\* The history of a pool followed since its construction, after operation e;
\* a pool is followed for MaxHist operations.
Remember(fresh, h, e) ==
    IF fresh /\ Len(h) < MaxHist THEN Append(h, e) ELSE << >>

PoolInit ==
    /\ pn \in 1 .. MaxPoolSize
    /\ pin \in [0 .. (pn - 1) -> BOOLEAN]
    /\ pcur \in 0 .. (pn - 1)
    /\ pskip \in BOOLEAN
    /\ pret = NoSlot
    /\ ppre = pin
    /\ pfresh = ((\A i \in 0 .. (pn - 1) : ~pin[i]) /\ pcur = NewCursor(pn) /\ ~pskip)
    /\ pop = IF pfresh THEN "new" ELSE "any"
    /\ phist = << >>

PoolQuiet ==
    /\ pn = 1 /\ pin = [i \in {0} |-> FALSE] /\ pcur = 0 /\ pskip = FALSE
    /\ pret = NoSlot /\ ppre = pin /\ pop = "new" /\ pfresh = FALSE
    /\ phist = << >>

\* One scheduler attempt on the pool.
PAcquire ==
    LET c == Claim(pin, pcur, pskip, pn)
    IN  /\ pin' = c.in_use
        /\ pcur' = c.current
        /\ pskip' = c.skip
        /\ pret' = c.got
        /\ ppre' = pin
        /\ pop' = "acquire"
        /\ pfresh' = (pfresh /\ Len(phist) < MaxHist)
        /\ phist' = Remember(pfresh, phist, <<"acquire", c.got>>)
        /\ UNCHANGED pn

\* release of a slot that is in use.
PRelease(i) ==
    /\ i \in 0 .. (pn - 1)
    /\ pin[i]
    /\ pin' = Release(pin, i)
    /\ ppre' = pin
    /\ pop' = "release"
    /\ pfresh' = (pfresh /\ Len(phist) < MaxHist)
    /\ phist' = Remember(pfresh, phist, <<"release", i>>)
    /\ UNCHANGED <<pn, pcur, pskip, pret>>

--------------------------------------------------------------------------
(* The pipeline: 4.2 Capture Scheduler, 4.3 Readback Completion Handler,   *)
(* 4.4 Delivery Worker and release drain                                   *)

NoJob == << >>

SeqToSet(q) == { q[k] : k \in 1 .. Len(q) }

CountTrue(f) == Cardinality({ i \in DOMAIN f : f[i] })

\* A scheduler that takes every target for enabled.
EnabledAlways(t) == TRUE

\* Capture::enabled
Enabled(t) == enabled[t]

PipeInit ==
    /\ in_use = [t \in Targets |-> [i \in Slots |-> FALSE]]
    /\ current = [t \in Targets |-> NewCursor(PoolSize)]
    /\ skip = [t \in Targets |-> FALSE]
    /\ dev = [t \in Targets |-> [i \in Slots |-> "unmapped"]]
    /\ jobs = << >>
    /\ worker = NoJob
    /\ releases = << >>
    /\ phase = "driver"
    /\ lastAcq = [t \in Targets |-> "off"]
    /\ noneRun = [t \in Targets |-> 0]
    /\ claims = [t \in Targets |-> 0]
    /\ errs = [t \in Targets |-> "none"]

EnabledInit == enabled = [t \in Targets |-> TRUE]

\* The enabled flag is an atomic shared with the main world, which may store
\* to it at any moment of the render tick.
Toggle(t) ==
    /\ enabled' = [enabled EXCEPT ![t] = ~enabled[t]]
    /\ UNCHANGED <<wrkVars, msgVars, sigVars, poolVars, pipeVars, drvVars>>

\* The scheduler's pass over the targets, once per render tick: a disabled
\* target is left alone; an enabled one claims a free slot and a copy into it
\* is issued, or finds none and sets skip.
Scheduler ==
    /\ phase = "driver"
    /\ LET c == [t \in Targets |->
                    Claim(in_use[t], current[t], skip[t], PoolSize)]
       IN  /\ in_use' = [t \in Targets |->
                            IF Enabled(t) THEN c[t].in_use ELSE in_use[t]]
           /\ current' = [t \in Targets |->
                            IF Enabled(t) THEN c[t].current ELSE current[t]]
           /\ skip' = [t \in Targets |->
                            IF Enabled(t) THEN c[t].skip ELSE skip[t]]
           /\ lastAcq' = [t \in Targets |->
                            IF ~Enabled(t) THEN "off"
                            ELSE IF c[t].got = NoSlot THEN "none" ELSE "some"]
           /\ noneRun' = [t \in Targets |->
                            IF Enabled(t) /\ c[t].got = NoSlot
                            THEN Min({noneRun[t] + 1, MaxRun}) ELSE 0]
           /\ claims' = [t \in Targets |->
                            IF Enabled(t) /\ c[t].got # NoSlot
                            THEN claims[t] + 1 ELSE claims[t]]
    /\ errs' = [t \in Targets |-> "none"]
    /\ phase' = "systems"
    /\ UNCHANGED <<wrkVars, msgVars, sigVars, poolVars, enabled, dev, jobs, worker, releases, drvVars>>

\* Targets for which the handler begins a map request: enabled and not
\* skipped; the request is for the buffer `current` names.
Requested == { t \in Targets : Enabled(t) /\ ~skip[t] }

\* A request for a buffer whose map is already pending or done is refused by
\* the device at once: the callback runs with a mapping error.
Refused == { t \in Requested : dev[t][current[t]] # "unmapped" }

\* receive_image_from_buffer: begin the map of the claimed buffer of every
\* enabled, non-skipped target, then poll the device without waiting.
Handler ==
    /\ phase \in {"systems", "drained"}
    /\ dev' = [t \in Targets |->
                 IF t \in Requested \ Refused
                 THEN [dev[t] EXCEPT ![current[t]] = "pending"] ELSE dev[t]]
    /\ in_use' = [t \in Targets |->
                 IF t \in Refused
                 THEN Release(in_use[t], current[t]) ELSE in_use[t]]
    /\ claims' = [t \in Targets |->
                 IF t \in Refused /\ in_use[t][current[t]]
                 THEN claims[t] - 1 ELSE claims[t]]
    /\ errs' = [t \in Targets |-> IF t \in Refused THEN "map" ELSE errs[t]]
    /\ phase' = IF phase = "systems" THEN "handled" ELSE "driver"
    /\ UNCHANGED <<wrkVars, msgVars, sigVars, poolVars, enabled, current, skip, jobs, worker, releases,
                   lastAcq, noneRun, drvVars>>

\* A map callback that reports a mapping error and keeps the slot.
MapCallbackKeepsSlot(t, i, ok) ==
    /\ dev[t][i] = "pending"
    /\ dev' = [dev EXCEPT ![t][i] = IF ok THEN "mapped" ELSE "unmapped"]
    /\ jobs' = IF ok THEN Append(jobs, <<t, i>>) ELSE jobs
    /\ errs' = IF ok THEN errs ELSE [errs EXCEPT ![t] = "map"]
    /\ UNCHANGED <<wrkVars, msgVars, sigVars, poolVars, enabled, in_use, current, skip, worker, releases,
                   phase, lastAcq, noneRun, claims, drvVars>>

\* The map callback of buffer i of target t, run by a poll of the device. On
\* success a ReadbackJob is sent to the worker; on a mapping error the slot is
\* released at once and the error reported.
MapCallback(t, i, ok) ==
    /\ dev[t][i] = "pending"
    /\ IF ok
       THEN /\ dev' = [dev EXCEPT ![t][i] = "mapped"]
            /\ jobs' = Append(jobs, <<t, i>>)
            /\ UNCHANGED <<in_use, claims, errs>>
       ELSE /\ dev' = [dev EXCEPT ![t][i] = "unmapped"]
            /\ in_use' = [in_use EXCEPT ![t] = Release(in_use[t], i)]
            /\ claims' = [claims EXCEPT ![t] =
                            IF in_use[t][i] THEN @ - 1 ELSE @]
            /\ errs' = [errs EXCEPT ![t] = "map"]
            /\ UNCHANGED jobs
    /\ UNCHANGED <<wrkVars, msgVars, sigVars, poolVars, enabled, current, skip, worker, releases, phase,
                   lastAcq, noneRun, drvVars>>

\* Delivery Worker: receive one job, read the mapped bytes and push the frame
\* to the job's sink; a failed push is logged.
WorkerPush(ok) ==
    /\ worker = NoJob
    /\ jobs # << >>
    /\ worker' = Head(jobs)
    /\ jobs' = Tail(jobs)
    /\ errs' = IF ok THEN errs ELSE [errs EXCEPT ![Head(jobs)[1]] = "push"]
    /\ UNCHANGED <<wrkVars, msgVars, sigVars, poolVars, enabled, in_use, current, skip, dev, releases,
                   phase, lastAcq, noneRun, claims, drvVars>>

\* Delivery Worker: emit the ReleaseSignal of the job it holds.
WorkerEmit ==
    /\ worker # NoJob
    /\ releases' = Append(releases, worker)
    /\ worker' = NoJob
    /\ UNCHANGED <<wrkVars, msgVars, sigVars, poolVars, enabled, in_use, current, skip, dev, jobs,
                   phase, lastAcq, noneRun, claims, errs, drvVars>>

\* release_mapped_buffers: drain every pending ReleaseSignal, unmap the
\* buffer and flip in_use to false.
Drain ==
    /\ phase \in {"systems", "handled"}
    /\ LET sig == SeqToSet(releases)
       IN  /\ dev' = [t \in Targets |-> [i \in Slots |->
                        IF <<t, i>> \in sig THEN "unmapped" ELSE dev[t][i]]]
           /\ in_use' = [t \in Targets |-> [i \in Slots |->
                        IF <<t, i>> \in sig THEN FALSE ELSE in_use[t][i]]]
           /\ claims' = [t \in Targets |-> claims[t] -
                        Cardinality({ i \in Slots :
                                        <<t, i>> \in sig /\ in_use[t][i] })]
    /\ releases' = << >>
    /\ phase' = IF phase = "systems" THEN "drained" ELSE "driver"
    /\ UNCHANGED <<wrkVars, msgVars, sigVars, poolVars, enabled, current, skip, jobs, worker, lastAcq,
                   noneRun, errs, drvVars>>

--------------------------------------------------------------------------
(* Buffer Pool properties (PoolSpec) *)

PoolSlots == 0 .. (pn - 1)

\* C2: for every pool size and pool state, acquire_free never returns a slot
\* whose in_use flag was true when it was called: a returned slot was free and
\* is now marked in_use, nothing else changed, and None is returned exactly
\* when every slot was in use (and then nothing changed).
AcquireFreeSound ==
    pop = "acquire" =>
        /\ pret # NoSlot =>
              /\ pret \in PoolSlots
              /\ ~ppre[pret]
              /\ pin[pret]
              /\ \A j \in PoolSlots \ {pret} : pin[j] = ppre[j]
        /\ (pret = NoSlot) <=> (\A i \in PoolSlots : ppre[i])
        /\ pret = NoSlot => pin = ppre

\* C2's case: an acquire that passed over a busy slot and returned a free one
\* of a three-slot pool.
AcquireFreeWitness ==
    /\ pop = "acquire"
    /\ pn = 3
    /\ pret # NoSlot
    /\ \E j \in PoolSlots : ppre[j]

\* The scenario's operations: four ticks, the release of buffer 0, a tick.
ScenarioOps(h) ==
    \A k \in 1 .. Len(h) :
        IF k = 5 THEN h[k] = <<"release", 0>> ELSE h[k][1] = "acquire"

ScenarioRun ==
    << <<"acquire", 0>>, <<"acquire", 1>>, <<"acquire", 2>>,
       <<"acquire", NoSlot>>, <<"release", 0>>, <<"acquire", 0>> >>

\* C6: a constructed pool of three slots: tick 1 acquires buffer 0, and with
\* nothing released tick 2 acquires buffer 1 and tick 3 buffer 2; tick 4 finds
\* no free buffer and sets skip; after the release of buffer 0 alone, tick 5
\* acquires buffer 0 again.
TripleBufferScenario ==
    (pfresh /\ pn = 3 /\ Len(phist) <= Len(ScenarioRun) /\ ScenarioOps(phist)) =>
        /\ phist = SubSeq(ScenarioRun, 1, Len(phist))
        /\ Len(phist) \in {1, 2, 3} => (~pskip /\ pcur = Len(phist) - 1)
        /\ Len(phist) \in {4, 5} => pskip
        /\ Len(phist) = 6 => (~pskip /\ pcur = 0)

\* C6's case: the whole scenario has been played.
TripleBufferScenarioWitness ==
    pfresh /\ pn = 3 /\ phist = ScenarioRun

\* The k-th slot examined by a scan that starts after cursor c.
Examined(c, k) == (c + k) % pn

\* C26: acquire_free examines the slots in the order c+1, c+2, ... (mod N),
\* c being the current index it finds; the slot it returns is the first free
\* one in that order, every slot examined before it being in use, and it
\* becomes the current index; None is returned when all N are in use.
AcquireFreeScanOrder ==
    [][pop' = "acquire" =>
          /\ pret' # NoSlot =>
                \E k \in 1 .. pn :
                    /\ pret' = Examined(pcur, k)
                    /\ ~pin[Examined(pcur, k)]
                    /\ \A j \in 1 .. (k - 1) : pin[Examined(pcur, j)]
                    /\ pcur' = pret'
          /\ pret' = NoSlot =>
                /\ \A k \in 1 .. pn : pin[Examined(pcur, k)]
                /\ pcur' = pcur]_vars

\* C26's case: an acquire on a three-slot pool returned one of two slots
\* that were free.
AcquireFreeScanOrderWitness ==
    /\ pop = "acquire"
    /\ pn = 3
    /\ pret # NoSlot
    /\ pcur = pret
    /\ Cardinality({ j \in PoolSlots : ~ppre[j] }) = 2

--------------------------------------------------------------------------
(* Pipeline properties (Spec, FairSpec) *)

\* C3: whatever the interleaving of ticks, map completions, worker deliveries
\* and release drains, the slots of a pool claimed and not yet set free are
\* those whose in_use flag is set, and they never number more than N.
InUseNeverExceedsN ==
    \A t \in Targets :
        /\ claims[t] = CountTrue(in_use[t])
        /\ claims[t] <= PoolSize

\* C3's case: every slot of a pool is in use while a delivery is under way.
InUseNeverExceedsNWitness ==
    \E t \in Targets : claims[t] = PoolSize /\ worker # NoJob

\* Slot i of target t is with the device, the job queue, the worker or the
\* release channel.
InFlight(t, i) ==
    \/ dev[t][i] # "unmapped"
    \/ <<t, i>> \in SeqToSet(jobs)
    \/ worker = <<t, i>>
    \/ <<t, i>> \in SeqToSet(releases)

SchedulerStep == phase = "driver" /\ phase' = "systems"

\* C1: a slot is claimed by the scheduler's acquire alone, and only while no
\* map, job, delivery or release of it is outstanding; once claimed it is not
\* set free, hence not claimed again, before its release signal is drained or
\* its map has failed.
BufferSlotExclusivity ==
    [][\A t \in Targets, i \in Slots :
          /\ (~in_use[t][i] /\ in_use'[t][i]) =>
                /\ SchedulerStep
                /\ current'[t] = i
                /\ ~skip'[t]
                /\ ~InFlight(t, i)
          /\ (in_use[t][i] /\ ~in_use'[t][i]) =>
                \/ <<t, i>> \in SeqToSet(releases) /\ releases' = << >>
                \/ dev[t][i] = "pending" /\ dev'[t][i] = "unmapped"]_vars

PoolFull(t) == \A i \in Slots : in_use[t][i]

CopyIssued(t) == \E i \in Slots : ~in_use[t][i] /\ in_use'[t][i]

MapRequested(t) == \E i \in Slots : dev[t][i] = "unmapped" /\ dev'[t][i] = "pending"

JobCreated(t) == Len(jobs') > Len(jobs) /\ jobs'[Len(jobs')][1] = t

\* What a tick does for an enabled target whose pool is full, and what the
\* rest of that tick does: the frame is dropped (skip set and kept), the count
\* of consecutive drops goes up by one, no slot is claimed, no copy and no map
\* request is issued.
DropsNewest(t) ==
    /\ (SchedulerStep /\ Enabled(t) /\ PoolFull(t)) =>
          /\ lastAcq'[t] = "none"
          /\ noneRun'[t] = Min({noneRun[t] + 1, MaxRun})
          /\ skip'[t]
          /\ in_use'[t] = in_use[t]
          /\ current'[t] = current[t]
          /\ claims'[t] = claims[t]
          /\ dev' = dev
          /\ jobs' = jobs
    /\ (lastAcq[t] = "none" /\ ~SchedulerStep) =>
          /\ skip'[t]
          /\ ~CopyIssued(t)
          /\ ~MapRequested(t)

\* C4 as stated: on each of M consecutive ticks on which acquire_free returns
\* None the frame is dropped with skip set, no copy is issued, and no
\* ReadbackJob of the target is created during those ticks.
NoJobInDroppedTicks ==
    [][\A t \in Targets :
          /\ DropsNewest(t)
          /\ (lastAcq[t] = "none" /\ ~SchedulerStep) => ~JobCreated(t)]_vars

\* C4: on each of M consecutive ticks on which acquire_free returns None the
\* frame is dropped with skip set, no slot is claimed, no copy and no map
\* request is issued, so no ReadbackJob comes of the dropped frames; the jobs
\* created meanwhile are those of maps requested in earlier ticks.
DropNewestBackpressure ==
    [][\A t \in Targets :
          /\ DropsNewest(t)
          /\ (lastAcq[t] = "none" /\ ~SchedulerStep /\ JobCreated(t)) =>
                \E i \in Slots : dev[t][i] = "pending" /\ dev'[t][i] = "mapped"]_vars

\* C4's case: a second consecutive tick has dropped its frame.
DropNewestWitness ==
    \E t \in Targets : noneRun[t] = 2 /\ lastAcq[t] = "none" /\ skip[t]

\* C7: a slot that is in use is set free again, whatever happens to its map
\* and its delivery and whether or not the target stays enabled.
NoBufferLeak ==
    \A t \in Targets, i \in Slots : in_use[t][i] ~> ~in_use[t][i]

\* C8: when the map of a claimed slot fails the slot is set free in the same
\* step and the error reported; no job is created or queued, nothing is handed
\* to the worker or the release channel, and no new request is begun.
MapFailureReleases ==
    [][\A t \in Targets, i \in Slots :
          (dev[t][i] = "pending" /\ dev'[t][i] = "unmapped") =>
              /\ ~in_use'[t][i]
              /\ errs'[t] = "map"
              /\ jobs' = jobs
              /\ worker' = worker
              /\ releases' = releases
              /\ ~MapRequested(t)
              /\ ~InFlight(t, i)']_vars

\* C8's case: the map of the only claimed slot has failed in this tick and
\* nothing of it is left anywhere.
MapFailureWitness ==
    \E t \in Targets :
        /\ errs[t] = "map"
        /\ lastAcq[t] = "some"
        /\ claims[t] = 0
        /\ \A i \in Slots : ~InFlight(t, i)

DrainStep ==
    \/ phase = "systems" /\ phase' = "drained"
    \/ phase = "handled" /\ phase' = "driver"

\* C28: the scheduler passes over a target whose enabled flag is false: it
\* claims no slot, issues no copy, hands nothing to the delivery of frames
\* and leaves in_use, current, skip and the buffers of the pool as they are;
\* the release drain of the tick still takes every pending ReleaseSignal of
\* the target: the release queue is empty after it and every signalled slot
\* is unmapped and free.
DisabledTargetSkipped ==
    [][\A t \in Targets :
          ~enabled[t] =>
              /\ SchedulerStep =>
                    /\ lastAcq'[t] = "off"
                    /\ ~CopyIssued(t)
                    /\ in_use'[t] = in_use[t]
                    /\ current'[t] = current[t]
                    /\ skip'[t] = skip[t]
                    /\ claims'[t] = claims[t]
                    /\ dev'[t] = dev[t]
                    /\ jobs' = jobs
                    /\ worker' = worker
                    /\ releases' = releases
              /\ DrainStep =>
                    /\ releases' = << >>
                    /\ \A i \in Slots :
                          <<t, i>> \in SeqToSet(releases) =>
                              ~in_use'[t][i] /\ dev'[t][i] = "unmapped"
                    /\ \A i \in Slots :
                          <<t, i>> \notin SeqToSet(releases) =>
                              /\ in_use'[t][i] = in_use[t][i]
                              /\ dev'[t][i] = dev[t][i]
                    /\ current'[t] = current[t]
                    /\ skip'[t] = skip[t]]_vars

\* The target is disabled, the scheduler has passed over it in this tick,
\* the drain has run and every slot claimed before is unmapped and free.
DisabledTargetSkippedWitness ==
    \E t \in Targets :
        /\ ~enabled[t]
        /\ lastAcq[t] = "off"
        /\ phase = "drained"
        /\ releases = << >>
        /\ current[t] # NewCursor(PoolSize)
        /\ claims[t] = 0
        /\ \A i \in Slots : ~in_use[t][i] /\ dev[t][i] = "unmapped"

--------------------------------------------------------------------------
(* CaptureDriver::run of capture/driver.rs *)

DrvInit ==
    /\ capEnabled = [t \in Captures |-> TRUE]
    /\ texOk = [t \in Captures |-> TRUE]
    /\ memOk = [t \in Captures |-> TRUE]
    /\ sinkOk = [t \in Captures |-> TRUE]
    /\ drvDone = {}
    /\ drvState = "idle"

Panics == {"texture", "memory", "push"}

\* The loop over the captures from capture k on, `done` being the captures
\* already pushed: a disabled capture is passed over; the lookup of the source
\* image is unwrapped; the export of the memory and the push are expected.
RECURSIVE RunFrom(_, _)
RunFrom(k, done) ==
    IF k > NumCaptures THEN [state |-> "ok", done |-> done]
    ELSE IF ~capEnabled[k] THEN RunFrom(k + 1, done)
    ELSE IF ~texOk[k] THEN [state |-> "texture", done |-> done]
    ELSE IF ~memOk[k] THEN [state |-> "memory", done |-> done]
    ELSE IF ~sinkOk[k] THEN [state |-> "push", done |-> done]
    ELSE RunFrom(k + 1, done \cup {k})

\* One run of the render-graph node. A panic ends the render loop.
CaptureDriverRun ==
    /\ drvState \notin Panics
    /\ LET r == RunFrom(1, {})
       IN  /\ drvState' = r.state
           /\ drvDone' = r.done
    /\ UNCHANGED <<wrkVars, msgVars, sigVars, poolVars, enabled, pipeVars, capEnabled, texOk, memOk, sinkOk>>

\* The main world stores to the enabled flag of capture t.
ToggleCapture(t) ==
    /\ capEnabled' = [capEnabled EXCEPT ![t] = ~@]
    /\ UNCHANGED <<wrkVars, msgVars, sigVars, poolVars, enabled, pipeVars, texOk, memOk, sinkOk, drvDone,
                   drvState>>

\* The engine drops or restores the source image of capture t.
SetTexture(t) ==
    /\ texOk' = [texOk EXCEPT ![t] = ~@]
    /\ UNCHANGED <<wrkVars, msgVars, sigVars, poolVars, enabled, pipeVars, capEnabled, memOk, sinkOk,
                   drvDone, drvState>>

\* The device starts or stops exporting the memory of capture t.
SetMemory(t) ==
    /\ memOk' = [memOk EXCEPT ![t] = ~@]
    /\ UNCHANGED <<wrkVars, msgVars, sigVars, poolVars, enabled, pipeVars, capEnabled, texOk, sinkOk,
                   drvDone, drvState>>

\* The transport behind the sink of capture t closes or reopens.
SetSink(t) ==
    /\ sinkOk' = [sinkOk EXCEPT ![t] = ~@]
    /\ UNCHANGED <<wrkVars, msgVars, sigVars, poolVars, enabled, pipeVars, capEnabled, texOk, memOk,
                   drvDone, drvState>>

\* A run of the node that leaves a trace in the driver's state.
RunStep == <<drvState, drvDone>>' # <<drvState, drvDone>>

\* C5: the scheduler step of a render tick can complete in every reachable
\* state, whatever the state of the encoding pipeline behind it.
SchedulerCanAlwaysComplete == ENABLED CaptureDriverRun

\* C9: a run in which nothing fails but the lookup of source images passes
\* over the captures whose image is missing, pushes the frame of every other
\* enabled capture and returns, so that later ticks are run.
TextureFailureSkipsTarget ==
    [][(RunStep /\ \A t \in Captures : memOk[t] /\ sinkOk[t]) =>
          /\ drvState' = "ok"
          /\ drvDone' = { t \in Captures : capEnabled[t] /\ texOk[t] }]_vars

\* C10: a run in which nothing fails but pushes to sinks drops the frames
\* refused, pushes the frame of every other enabled capture and returns
\* without a panic.
PushFailureDropsFrame ==
    [][(RunStep /\ \A t \in Captures : texOk[t] /\ memOk[t]) =>
          /\ drvState' \notin Panics
          /\ drvDone' = { t \in Captures : capEnabled[t] /\ sinkOk[t] }]_vars

--------------------------------------------------------------------------
(* The signaller of ue_pixelstreaming/signaller/imp.rs *)

MaxStarts  == 2     \* calls of start()
MaxSpawned == 1     \* tasks spawned by send() and not yet run
MaxPending == 2     \* the same, where their order is looked at (OrderSpec)
MaxChan    == 1     \* messages waiting in an outbound channel
MaxMids    == 2     \* media lines of a description sent
IndexBits  == 3     \* width given to sdp_m_line_index (u32 in the source)

Conns   == 1 .. MaxStarts
NoTask  == 0
Players == {"p", "q"}
Ids     == {"a", "b"}
Mids    == {"", "v", "w"}

U32Max == 2 ^ IndexBits - 1
I32Max == 2 ^ (IndexBits - 1) - 1

\* Option<String>
None == << >>
Some(x) == <<x>>
UnwrapOr(o, d) == IF o = None THEN d ELSE o[1]

\* The type tags of protocol::Message.
KnownTags ==
    {"config", "identify", "endpointId", "endpointIdConfirm",
     "streamerIdChanged", "listStreamers", "streamerList", "subscribe",
     "unsubscribe", "playerConnected", "playerDisconnected", "offer",
     "answer", "iceCandidate", "disconnectPlayer", "ping", "pong",
     "streamerDisconnected", "layerPreference", "dataChannelRequest",
     "peerDataChannels", "peerDataChannelsReady", "streamerDataChannels",
     "startStreaming", "stopStreaming", "playerCount", "stats"}

\* A required field that the JSON object does not have.
NoField == "<missing>"

\* Tags of the messages that have a required field, here `arg`.
TagsWithField == {"endpointIdConfirm", "playerConnected", "playerDisconnected"}

\* Text payloads the server may send: not JSON at all, an unknown tag, a
\* known tag with its field missing, and well-formed messages.
Texts ==
    {[json |-> FALSE, tag |-> "", arg |-> ""],
     [json |-> TRUE, tag |-> "bogus", arg |-> ""],
     [json |-> TRUE, tag |-> "playerConnected", arg |-> NoField],
     [json |-> TRUE, tag |-> "identify", arg |-> ""],
     [json |-> TRUE, tag |-> "config", arg |-> ""]}
    \cup { [json |-> TRUE, tag |-> "endpointIdConfirm", arg |-> c] : c \in Ids }
    \cup { [json |-> TRUE, tag |-> g, arg |-> p] :
              g \in {"playerConnected", "playerDisconnected"}, p \in Players }

NoText == [json |-> FALSE, tag |-> "", arg |-> ""]

\* What the websocket stream yields: a text frame, a Close frame, another
\* frame (binary, ping, pong), or a transport error.
Frames ==
    { [ws |-> "text", text |-> t] : t \in Texts }
    \cup { [ws |-> w, text |-> NoText] : w \in {"close", "other", "error"} }

\* The width of IceCandidateData.sdp_m_line_index (i32 in the source).
I32Min == -(2 ^ (IndexBits - 1))

\* The SDP payloads of inbound offers and answers: one that
\* SDPMessage::parse_buffer accepts and one that it rejects.
GoodSdp == "v=0"
Sdps == {GoodSdp, "not sdp"}

\* Offer and Answer: a required sdp and an optional playerId.
SdpText(tag, player_id, sdp) ==
    [json |-> TRUE, tag |-> tag, arg |-> "", player_id |-> player_id,
     sdp |-> sdp]

\* IceCandidateData
Candidates ==
    [candidate : {"c"}, sdp_mid : {"", "v"},
     sdp_m_line_index : I32Min .. I32Max]

\* IceCandidate: an optional candidate and an optional playerId.
IceText(player_id, candidate) ==
    [json |-> TRUE, tag |-> "iceCandidate", arg |-> "",
     player_id |-> player_id, candidate |-> candidate]

OptionalPlayers == {<< >>} \cup { <<p>> : p \in Players }

\* The offers, answers and candidates the server may send.
SdpTexts ==
    { SdpText(tag, player_id, sdp) :
         tag \in {"offer", "answer"}, player_id \in OptionalPlayers,
         sdp \in Sdps }
IceTexts ==
    { IceText(player_id, candidate) :
         player_id \in OptionalPlayers,
         candidate \in {<< >>} \cup { <<c>> : c \in Candidates } }

SdpFrames == { [ws |-> "text", text |-> t] : t \in SdpTexts }
IceFrames == { [ws |-> "text", text |-> t] : t \in IceTexts }

DecodeError == << >>

\* Tags of the messages whose fields handle_message looks into one by one.
SessionTags == {"offer", "answer", "iceCandidate"}

\* serde_json::from_str::<p::Message>
FromStr(text) ==
    IF /\ text.json
       /\ text.tag \in KnownTags
       /\ text.tag \in TagsWithField => text.arg # NoField
    THEN IF text.tag \in SessionTags THEN <<text.tag, text>>
         ELSE <<text.tag, text.arg>>
    ELSE DecodeError

\* Signals emitted to the media layer.
SessionRequested(p) == <<"session-requested", p, p, None>>
SessionEnded(p) == <<"session-ended", p>>
ErrorSignal(what) == <<"error", what>>
SessionDescription(p, type) == <<"session-description", p, type>>
HandleIce(p, idx, mid, candidate) == <<"handle-ice", p, idx, mid, candidate>>

\* Outbound messages.
EndpointIdMsg(id) == <<"endpointId", id, "", 0>>
OfferMsg(p) == <<"offer", p, "", 0>>
AnswerMsg(p) == <<"answer", p, "", 0>>
IceCandidateMsg(p, mid, idx) == <<"iceCandidate", p, mid, idx>>

Result(ev, flow, act) == [ev |-> ev, flow |-> flow, act |-> act]

\* A handle_message that passes over a decode error in silence.
HandleMessageSilent(frame) ==
    IF frame.ws = "text"
    THEN LET msg == FromStr(frame.text)
         IN  IF msg = DecodeError THEN Result(<< >>, "continue", "none")
             ELSE IF msg[1] = "identify"
                  THEN Result(<< >>, "continue", "identify")
             ELSE IF msg[1] = "endpointIdConfirm"
                  THEN Result(<< >>, "continue", "confirm")
             ELSE IF msg[1] = "playerConnected"
                  THEN Result(<<SessionRequested(msg[2])>>, "continue", "none")
             ELSE IF msg[1] = "playerDisconnected"
                  THEN Result(<<SessionEnded(msg[2])>>, "continue", "none")
             ELSE Result(<< >>, "continue", "none")
    ELSE IF frame.ws = "close" THEN Result(<< >>, "break", "none")
    ELSE IF frame.ws = "error"
         THEN Result(<<ErrorSignal("receiving")>>, "break", "none")
    ELSE Result(<< >>, "continue", "none")

\* A handle_message that ends the session of the player on playerConnected.
HandleMessageEnding(frame) ==
    LET r == HandleMessageSilent(frame)
    IN  IF frame.ws = "text" /\ FromStr(frame.text) = DecodeError
        THEN Result(<<ErrorSignal("unknown message")>>, "continue", "none")
        ELSE IF r.ev # << >> /\ r.ev[1][1] = "session-requested"
        THEN Result(<<SessionEnded(r.ev[1][2])>>, "continue", "none")
        ELSE r

\* A handle_message that leaves the loop on playerDisconnected.
HandleMessageLeaving(frame) ==
    LET r == HandleMessageSilent(frame)
    IN  IF frame.ws = "text" /\ FromStr(frame.text) = DecodeError
        THEN Result(<<ErrorSignal("unknown message")>>, "continue", "none")
        ELSE IF r.ev # << >> /\ r.ev[1][1] = "session-ended"
        THEN Result(r.ev, "break", "none")
        ELSE r

\* A handle_message that reads on past a Close frame.
HandleMessagePastClose(frame) ==
    IF frame.ws = "close" THEN Result(<< >>, "continue", "none")
    ELSE HandleMessageSilent(frame)

\* gst_sdp::SDPMessage::parse_buffer: whether the payload is a description.
ParseBuffer(sdp) == sdp = GoodSdp

\* handle_message on an Offer or an Answer: without a player id nothing; a
\* payload that does not parse is reported and ends the receive-loop;
\* otherwise the description goes to the media layer.
InboundSdp(type, m) ==
    IF m.player_id = << >> THEN Result(<< >>, "continue", "none")
    ELSE IF ParseBuffer(m.sdp)
    THEN Result(<<SessionDescription(m.player_id[1], type)>>, "continue",
                "none")
    ELSE Result(<<ErrorSignal("parsing sdp")>>, "break", "none")

\* A conversion of the line index that wraps (`as u32`).
U32WrappingFrom(i) == <<i % 2 ^ IndexBits>>

\* u32::try_from(i32)
U32TryFrom(i) == IF i >= 0 THEN <<i>> ELSE << >>

\* handle_message on an IceCandidate: the signals emitted.
InboundIce(m) ==
    IF m.player_id # << >> /\ m.candidate # << >>
    THEN LET c == m.candidate[1]
             sdp_m_line_index == U32TryFrom(c.sdp_m_line_index)
         IN  IF sdp_m_line_index # << >>
             THEN <<HandleIce(m.player_id[1], sdp_m_line_index[1], c.sdp_mid,
                              c.candidate)>>
             ELSE << >>
    ELSE << >>

\* Signaller::handle_message: the signals it emits, whether the receive-loop
\* goes on, and what it does under the state lock (the reply to identify,
\* the store of the committed id).
HandleMessage(frame) ==
    IF frame.ws = "text"
    THEN LET msg == FromStr(frame.text)
         IN  IF msg = DecodeError
             THEN Result(<<ErrorSignal("unknown message")>>, "continue", "none")
             ELSE IF msg[1] = "identify"
                  THEN Result(<< >>, "continue", "identify")
             ELSE IF msg[1] = "endpointIdConfirm"
                  THEN Result(<< >>, "continue", "confirm")
             ELSE IF msg[1] = "playerConnected"
                  THEN Result(<<SessionRequested(msg[2])>>, "continue", "none")
             ELSE IF msg[1] = "playerDisconnected"
                  THEN Result(<<SessionEnded(msg[2])>>, "continue", "none")
             ELSE IF msg[1] = "offer" \/ msg[1] = "answer"
                  THEN InboundSdp(msg[1], msg[2])
             ELSE IF msg[1] = "iceCandidate"
                  THEN Result(InboundIce(msg[2]), "continue", "none")
             ELSE Result(<< >>, "continue", "none")
    ELSE IF frame.ws = "close" THEN Result(<< >>, "break", "none")
    ELSE IF frame.ws = "error"
         THEN Result(<<ErrorSignal("receiving")>>, "break", "none")
    ELSE Result(<< >>, "continue", "none")

\* An add_ice that errors on a line index beyond the recorded mid list.
IceMessageStrict(meds, p, idx) ==
    IF idx > I32Max \/ idx >= Len(meds) THEN None
    ELSE Some(IceCandidateMsg(p, meds[idx + 1], idx))

\* Signaller::add_ice: the message it passes to send(), if any. The mid is
\* the entry of the list at the line index, or "" beyond the list; an index
\* that does not fit the i32 of the message is warned about and dropped.
IceMessage(meds, p, idx) ==
    LET sdp_mid == IF idx < Len(meds) THEN Some(meds[idx + 1]) ELSE None
    IN  IF idx > I32Max THEN None
        ELSE Some(IceCandidateMsg(p, UnwrapOr(sdp_mid, ""), idx))

\* What an operation did: the frame handled, the signals emitted, the
\* messages passed to send() and whether send() found a sender.
Did(op, conn, frame, ev, out, queued) ==
    [op |-> op, conn |-> conn, frame |-> frame, ev |-> ev, out |-> out,
     queued |-> queued, arg |-> << >>]

NoFrame == [ws |-> "none", text |-> NoText]

\* What an add_ice for session p and line index idx did.
DidIce(p, idx, out, queued) ==
    [op |-> "add_ice", conn |-> NoTask, frame |-> NoFrame, ev |-> << >>,
     out |-> out, queued |-> queued, arg |-> <<p, idx>>]

SigFresh ==
    /\ settings_id = None
    /\ streamer_id = None
    /\ websocket_sender = NoTask
    /\ connect_task_handle = NoTask
    /\ send_task_handle = NoTask
    /\ receive_task_handle = NoTask
    /\ producers = {}
    /\ medias = << >>
    /\ nstarts = 0
    /\ connectPc = [k \in Conns |-> "unborn"]
    /\ recvPc = [k \in Conns |-> "unborn"]
    /\ recvMsg = [k \in Conns |-> NoFrame]
    /\ sendPc = [k \in Conns |-> "unborn"]
    /\ chan = [k \in Conns |-> << >>]
    /\ chanClosed = [k \in Conns |-> FALSE]
    /\ spawned = << >>
    /\ stopPc = "idle"
    /\ stopJoin = [connect |-> NoTask, send |-> NoTask, recv |-> NoTask]
    /\ confirmed = {}
    /\ ended = {}
    /\ garbled = {}
    /\ running = FALSE
    /\ last = Did("none", NoTask, NoFrame, << >>, << >>, FALSE)
    /\ sessions = {}
    /\ sdp_of = [p \in Players |-> None]

SigInit == SigFresh /\ pending_room = MaxSpawned

\* The state lock is free: stop() holds it from its first line to its last;
\* every other holder takes and drops it within one step.
LockFree == stopPc = "idle"

\* set_property("streamer-id")
SetStreamerId(v) ==
    /\ settings_id' = Some(v)
    /\ UNCHANGED <<streamer_id, websocket_sender, connect_task_handle,
                   send_task_handle, receive_task_handle, producers, medias,
                   nstarts, connectPc, recvPc, recvMsg, sendPc, chan,
                   chanClosed, spawned, stopPc, stopJoin, confirmed, ended,
                   garbled, running, last, restVars>>

\* start(): spawn the connect task and store its handle over the one held.
Start ==
    /\ LockFree
    /\ nstarts < MaxStarts
    /\ nstarts' = nstarts + 1
    /\ connectPc' = [connectPc EXCEPT ![nstarts + 1] = "connecting"]
    /\ connect_task_handle' = nstarts + 1
    /\ running' = TRUE
    /\ UNCHANGED <<settings_id, streamer_id, websocket_sender,
                   send_task_handle, receive_task_handle, producers, medias,
                   recvPc, recvMsg, sendPc, chan, chanClosed, spawned, stopPc,
                   stopJoin, confirmed, ended, garbled, last, restVars>>

\* connect(): the socket handshake is done; the send-loop and the
\* receive-loop are spawned, and the task goes on to lock the state.
ConnectOk(k) ==
    /\ connectPc[k] = "connecting"
    /\ connectPc' = [connectPc EXCEPT ![k] = "install"]
    /\ sendPc' = [sendPc EXCEPT ![k] = "running"]
    /\ recvPc' = [recvPc EXCEPT ![k] = "recv"]
    /\ UNCHANGED <<settings_id, streamer_id, websocket_sender,
                   connect_task_handle, send_task_handle, receive_task_handle,
                   producers, medias, nstarts, recvMsg, chan, chanClosed,
                   spawned, stopPc, stopJoin, confirmed, ended, garbled,
                   running, last, restVars>>

\* A connect task that swallows the error of connect().
StartTaskSilent(res) == << >>

\* The task start() spawns: the signals it emits once connect() has
\* returned res.
StartTask(res) ==
    IF res = "err" THEN <<ErrorSignal("receiving")>> ELSE << >>

\* connect() fails (timeout, transport): the task reports the error and ends.
ConnectFail(k) ==
    /\ connectPc[k] = "connecting"
    /\ connectPc' = [connectPc EXCEPT ![k] = "done"]
    /\ last' = Did("connect", k, NoFrame, StartTask("err"), << >>, FALSE)
    /\ UNCHANGED <<settings_id, streamer_id, websocket_sender,
                   connect_task_handle, send_task_handle, receive_task_handle,
                   producers, medias, nstarts, recvPc, recvMsg, sendPc, chan,
                   chanClosed, spawned, stopPc, stopJoin, confirmed, ended,
                   garbled, running, restVars>>

\* connect(): under the state lock, install the sender and the two handles.
ConnectInstall(k) ==
    /\ connectPc[k] = "install"
    /\ LockFree
    /\ websocket_sender' = k
    /\ send_task_handle' = k
    /\ receive_task_handle' = k
    /\ connectPc' = [connectPc EXCEPT ![k] = "done"]
    /\ UNCHANGED <<settings_id, streamer_id, connect_task_handle, producers,
                   medias, nstarts, recvPc, recvMsg, sendPc, chan, chanClosed,
                   spawned, stopPc, stopJoin, confirmed, ended, garbled,
                   running, last, restVars>>

\* A send() that falls back on the channel of the first connection.
SendToFirst(msg) ==
    Append(spawned,
           <<IF websocket_sender # NoTask THEN websocket_sender ELSE 1, msg>>)

\* send(): with a sender installed, spawn a task that will put the message on
\* its channel; without one, nothing.
Send(msg) ==
    IF websocket_sender # NoTask
    THEN Append(spawned, <<websocket_sender, msg>>)
    ELSE spawned

\* There is room for the task send() would spawn.
CanSpawn == websocket_sender # NoTask => Len(spawned) < pending_room

\* A store of the committed id that keeps an id confirmed earlier.
ConfirmKeepsFirst(held, committed_id) ==
    IF held = None THEN Some(committed_id) ELSE held

\* state.streamer_id = Some(endpoint_id_confirm.committed_id)
Confirm(held, committed_id) == Some(committed_id)

\* The players with a session after the signals `ev` of one message: one
\* comes with "session-requested" and goes with "session-ended".
Connected(live, ev) ==
    IF ev = << >> THEN live
    ELSE IF ev[1][1] = "session-requested" THEN live \cup {ev[1][2]}
    ELSE IF ev[1][1] = "session-ended" THEN live \ {ev[1][2]}
    ELSE live

\* The receive-loop takes the next frame of the stream and handles it, up to
\* the point where handle_message locks the state.
Receive(k, frame) ==
    /\ recvPc[k] = "recv"
    /\ LET r == HandleMessage(frame)
       IN  IF r.act # "none"
           THEN /\ recvPc' = [recvPc EXCEPT ![k] = "lock"]
                /\ recvMsg' = [recvMsg EXCEPT ![k] = frame]
                /\ UNCHANGED <<ended, garbled, last>>
           ELSE /\ recvPc' = [recvPc EXCEPT ![k] =
                                 IF r.flow = "break" THEN "done" ELSE "recv"]
                /\ ended' = IF r.ev # << >> /\ r.ev[1][1] = "session-ended"
                            THEN ended \cup {r.ev[1][2]} ELSE ended
                /\ garbled' = IF frame.ws = "text"
                                 /\ FromStr(frame.text) = DecodeError
                              THEN garbled \cup {k} ELSE garbled
                /\ last' = Did("handle", k, frame, r.ev, << >>, FALSE)
                /\ UNCHANGED recvMsg
    /\ sessions' = Connected(sessions, HandleMessage(frame).ev)
    /\ UNCHANGED <<settings_id, streamer_id, websocket_sender,
                   connect_task_handle, send_task_handle, receive_task_handle,
                   producers, medias, nstarts, connectPc, sendPc, chan,
                   chanClosed, spawned, stopPc, stopJoin, confirmed, running,
                   sdp_of, hostVars>>

\* handle_message under the state lock: identify() replies through send();
\* endpointIdConfirm stores the committed id.
RecvLocked(k) ==
    /\ recvPc[k] = "lock"
    /\ LockFree
    /\ LET msg == FromStr(recvMsg[k].text)
           reply == EndpointIdMsg(UnwrapOr(settings_id, ""))
       IN  IF msg[1] = "identify"
           THEN /\ CanSpawn
                /\ spawned' = Send(reply)
                /\ last' = Did("handle", k, recvMsg[k], << >>, <<reply>>,
                               websocket_sender # NoTask)
                /\ UNCHANGED <<streamer_id, confirmed>>
           ELSE /\ streamer_id' = Confirm(streamer_id, msg[2])
                /\ confirmed' = confirmed \cup {k}
                /\ last' = Did("handle", k, recvMsg[k], << >>, << >>, FALSE)
                /\ UNCHANGED spawned
    /\ recvPc' = [recvPc EXCEPT ![k] = "recv"]
    /\ recvMsg' = [recvMsg EXCEPT ![k] = NoFrame]
    /\ UNCHANGED <<settings_id, websocket_sender, connect_task_handle,
                   send_task_handle, receive_task_handle, producers, medias,
                   nstarts, connectPc, sendPc, chan, chanClosed, stopPc,
                   stopJoin, ended, garbled, running, restVars>>

\* The sequence without its i-th entry.
Without(seq, i) == SubSeq(seq, 1, i - 1) \o SubSeq(seq, i + 1, Len(seq))

\* A task spawned by send() runs, whichever of those pending the runtime
\* picks: the message goes on the channel, or the channel is closed and the
\* task emits an error.
SendTask ==
    \E i \in 1 .. Len(spawned) :
        /\ LET s == spawned[i][1]
               msg == spawned[i][2]
           IN  IF chanClosed[s] \/ sendPc[s] = "done"
               THEN /\ last' = Did("send", s, NoFrame,
                                   <<ErrorSignal("send")>>, << >>, FALSE)
                    /\ UNCHANGED chan
               ELSE /\ Len(chan[s]) < MaxChan
                    /\ chan' = [chan EXCEPT ![s] = Append(@, msg)]
                    /\ UNCHANGED last
        /\ spawned' = Without(spawned, i)
        /\ UNCHANGED <<settings_id, streamer_id, websocket_sender,
                       connect_task_handle, send_task_handle,
                       receive_task_handle, producers, medias, nstarts,
                       connectPc, recvPc, recvMsg, sendPc, chanClosed, stopPc,
                       stopJoin, confirmed, ended, garbled, running, restVars>>

\* The send-loop writes the next message to the socket, or finds the channel
\* closed and empty, closes the socket and ends.
SendLoop(k) ==
    /\ sendPc[k] = "running"
    /\ IF chan[k] # << >>
       THEN /\ chan' = [chan EXCEPT ![k] = Tail(@)]
            /\ UNCHANGED sendPc
       ELSE /\ chanClosed[k]
            /\ sendPc' = [sendPc EXCEPT ![k] = "done"]
            /\ UNCHANGED chan
    /\ UNCHANGED <<settings_id, streamer_id, websocket_sender,
                   connect_task_handle, send_task_handle, receive_task_handle,
                   producers, medias, nstarts, connectPc, recvPc, recvMsg,
                   chanClosed, spawned, stopPc, stopJoin, confirmed, ended,
                   garbled, running, last, restVars>>

\* The write to the socket fails: the send-loop quits.
SendLoopFail(k) ==
    /\ sendPc[k] = "running"
    /\ chan[k] # << >>
    /\ chan' = [chan EXCEPT ![k] = Tail(@)]
    /\ sendPc' = [sendPc EXCEPT ![k] = "done"]
    /\ UNCHANGED <<settings_id, streamer_id, websocket_sender,
                   connect_task_handle, send_task_handle, receive_task_handle,
                   producers, medias, nstarts, connectPc, recvPc, recvMsg,
                   chanClosed, spawned, stopPc, stopJoin, confirmed, ended,
                   garbled, running, last, restVars>>

\* stop(), second half: take the two loop handles and the sender; with a
\* sender, close its channel and go on to join the loops.
TakeHandles ==
    /\ websocket_sender' = NoTask
    /\ send_task_handle' = NoTask
    /\ receive_task_handle' = NoTask
    /\ IF websocket_sender # NoTask
       THEN /\ chanClosed' = [chanClosed EXCEPT ![websocket_sender] = TRUE]
            /\ stopJoin' = [connect |-> NoTask, send |-> send_task_handle,
                            recv |-> receive_task_handle]
            /\ stopPc' = "joinSend"
       ELSE /\ stopJoin' = [connect |-> NoTask, send |-> NoTask,
                            recv |-> NoTask]
            /\ stopPc' = "clear"
            /\ UNCHANGED chanClosed

\* stop(): lock the state and take the connect handle; abort the task it
\* names and wait for it, or go on at once when there is none.
StopBegin ==
    /\ stopPc = "idle"
    /\ connect_task_handle' = NoTask
    /\ IF connect_task_handle # NoTask
       THEN /\ connectPc' = [connectPc EXCEPT ![connect_task_handle] =
                                IF @ = "connecting" THEN "aborted" ELSE @]
            /\ stopJoin' = [stopJoin EXCEPT !.connect = connect_task_handle]
            /\ stopPc' = "joinConnect"
            /\ UNCHANGED <<websocket_sender, send_task_handle,
                           receive_task_handle, chanClosed>>
       ELSE /\ TakeHandles
            /\ UNCHANGED connectPc
    /\ UNCHANGED <<settings_id, streamer_id, producers, medias, nstarts,
                   recvPc, recvMsg, sendPc, chan, spawned, confirmed, ended,
                   garbled, running, last, restVars>>

\* stop(): the connect task has ended; go on to the loops.
StopJoinConnect ==
    /\ stopPc = "joinConnect"
    /\ connectPc[stopJoin.connect] \in {"done", "aborted"}
    /\ TakeHandles
    /\ UNCHANGED <<settings_id, streamer_id, connect_task_handle, producers,
                   medias, nstarts, connectPc, recvPc, recvMsg, sendPc, chan,
                   spawned, confirmed, ended, garbled, running, last,
                   restVars>>

\* stop(): the send-loop has ended; abort the receive-loop.
StopJoinSend ==
    /\ stopPc = "joinSend"
    /\ stopJoin.send # NoTask => sendPc[stopJoin.send] = "done"
    /\ recvPc' = IF stopJoin.recv # NoTask /\ recvPc[stopJoin.recv] = "recv"
                 THEN [recvPc EXCEPT ![stopJoin.recv] = "aborted"]
                 ELSE recvPc
    /\ stopPc' = "joinRecv"
    /\ UNCHANGED <<settings_id, streamer_id, websocket_sender,
                   connect_task_handle, send_task_handle, receive_task_handle,
                   producers, medias, nstarts, connectPc, recvMsg, sendPc,
                   chan, chanClosed, spawned, stopJoin, confirmed, ended,
                   garbled, running, last, restVars>>

\* stop(): the receive-loop has ended.
StopJoinRecv ==
    /\ stopPc = "joinRecv"
    /\ stopJoin.recv # NoTask => recvPc[stopJoin.recv] \in {"done", "aborted"}
    /\ stopPc' = "clear"
    /\ UNCHANGED <<settings_id, streamer_id, websocket_sender,
                   connect_task_handle, send_task_handle, receive_task_handle,
                   producers, medias, nstarts, connectPc, recvPc, recvMsg,
                   sendPc, chan, chanClosed, spawned, stopJoin, confirmed,
                   ended, garbled, running, last, restVars>>

\* stop(): clear the producers, drop the lock and return.
StopEnd ==
    /\ stopPc = "clear"
    /\ producers' = {}
    /\ stopJoin' = [connect |-> NoTask, send |-> NoTask, recv |-> NoTask]
    /\ stopPc' = "idle"
    /\ running' = FALSE
    /\ last' = Did("stop", NoTask, NoFrame, << >>, << >>, FALSE)
    /\ sessions' = {}
    /\ UNCHANGED <<settings_id, streamer_id, websocket_sender,
                   connect_task_handle, send_task_handle, receive_task_handle,
                   medias, nstarts, connectPc, recvPc, recvMsg, sendPc, chan,
                   chanClosed, spawned, confirmed, ended, garbled, sdp_of,
                   hostVars>>

DisconnectPlayerMsg(p) == <<"disconnectPlayer", p, "", 0>>

\* end_session: with a sender installed, spawn a task that puts a
\* DisconnectPlayer for the session on its channel; without one, nothing.
EndSession(p) ==
    /\ LockFree
    /\ CanSpawn
    /\ spawned' = Send(DisconnectPlayerMsg(p))
    /\ sessions' = sessions \ {p}
    /\ last' = [Did("end_session", NoTask, NoFrame, << >>,
                     <<DisconnectPlayerMsg(p)>>, websocket_sender # NoTask)
                 EXCEPT !.arg = <<p>>]
    /\ UNCHANGED <<settings_id, streamer_id, websocket_sender,
                   connect_task_handle, send_task_handle, receive_task_handle,
                   producers, medias, nstarts, connectPc, recvPc, recvMsg,
                   sendPc, chan, chanClosed, stopPc, stopJoin, confirmed,
                   ended, garbled, running, sdp_of, hostVars>>

\* The descriptions handed to send_sdp: an offer or an answer whose media
\* lines each carry a mid attribute or none.
SdpTypes == {"offer", "answer"}
MediaLines == {None} \cup {Some(m) : m \in Mids}
Descriptions == UNION { [1 .. n -> MediaLines] : n \in 0 .. MaxMids }

\* A recording that passes over the media lines without a mid.
RecordMidsNamedOnly(sdp) ==
    LET named == SelectSeq(sdp, LAMBDA media : media # None)
    IN  [k \in 1 .. Len(named) |-> named[k][1]]

\* medias.clear(); then for each media line, in order, push its mid or "".
RecordMids(sdp) == [k \in 1 .. Len(sdp) |-> UnwrapOr(sdp[k], "")]

\* The Offer or Answer that wraps the description for session p.
SdpMessage(type, p) == IF type = "offer" THEN OfferMsg(p) ELSE AnswerMsg(p)

\* send_sdp: record the mid of every media line, send the description.
SendSdp(p, type, sdp) ==
    /\ LockFree
    /\ CanSpawn
    /\ medias' = RecordMids(sdp)
    /\ spawned' = Send(SdpMessage(type, p))
    /\ last' = [Did("send_sdp", NoTask, NoFrame, << >>,
                     <<SdpMessage(type, p)>>, websocket_sender # NoTask)
                 EXCEPT !.arg = sdp]
    /\ sdp_of' = [sdp_of EXCEPT ![p] = Some(sdp)]
    /\ UNCHANGED <<settings_id, streamer_id, websocket_sender,
                   connect_task_handle, send_task_handle, receive_task_handle,
                   producers, nstarts, connectPc, recvPc, recvMsg, sendPc,
                   chan, chanClosed, stopPc, stopJoin, confirmed, ended,
                   garbled, running, sessions, hostVars>>

\* add_ice for session p and line index idx.
AddIce(p, idx) ==
    /\ LockFree
    /\ CanSpawn
    /\ LET m == IceMessage(medias, p, idx)
       IN  /\ spawned' = IF m = None THEN spawned ELSE Send(m[1])
           /\ last' = DidIce(p, idx, m, m # None /\ websocket_sender # NoTask)
    /\ UNCHANGED <<settings_id, streamer_id, websocket_sender,
                   connect_task_handle, send_task_handle, receive_task_handle,
                   producers, medias, nstarts, connectPc, recvPc, recvMsg,
                   sendPc, chan, chanClosed, stopPc, stopJoin, confirmed,
                   ended, garbled, running, restVars>>

--------------------------------------------------------------------------
(* Signaller properties (RecvSpec, IceSpec, SigSpec) *)

TextFrame(tag, arg) ==
    [ws |-> "text", text |-> [json |-> TRUE, tag |-> tag, arg |-> arg]]

\* The receive-loop of connection k stores the id of an endpointIdConfirm.
ConfirmStep(k, c) ==
    /\ recvPc[k] = "lock"
    /\ recvMsg[k] = TextFrame("endpointIdConfirm", c)
    /\ recvPc'[k] = "recv"

\* The receive-loop of connection k handles `frame` without the state lock.
HandleStep(k, frame) ==
    /\ recvPc[k] = "recv"
    /\ last' # last
    /\ last'.op = "handle"
    /\ last'.conn = k
    /\ last'.frame = frame

\* The "streamer-id" property
StreamerIdProperty == streamer_id

\* C11: receiving endpointIdConfirm{committedId: c} sets the stored streamer
\* id to exactly c, whatever id was configured and whatever id was confirmed
\* before, and changes nothing else of the signaller's state.
EndpointIdConfirmStoresId ==
    [][\A k \in Conns, c \in Ids :
          ConfirmStep(k, c) =>
              /\ StreamerIdProperty' = Some(c)
              /\ UNCHANGED <<settings_id, websocket_sender,
                             connect_task_handle, send_task_handle,
                             receive_task_handle, producers, medias,
                             connectPc, sendPc, chan, chanClosed, spawned,
                             stopPc>>]_vars

\* C11's case: "b" has been committed for a streamer configured as "a".
EndpointIdConfirmWitness ==
    /\ last.op = "handle"
    /\ last.frame = TextFrame("endpointIdConfirm", "b")
    /\ settings_id = Some("a")
    /\ streamer_id = Some("b")

\* C12: whenever the receive-loop handles an identify request, an EndpointId
\* message carrying the configured streamer id ("" if none) is handed to the
\* outbound sender.
IdentifyAnswered ==
    [][\A k \in Conns :
          (recvPc[k] = "lock" /\ recvMsg[k] = TextFrame("identify", "")
             /\ recvPc'[k] = "recv") =>
              \E s \in Conns :
                  spawned' = Append(spawned,
                      <<s, <<"endpointId", UnwrapOr(settings_id, ""), "", 0>> >>)]_vars

\* C13: each playerConnected{playerId: p} handled raises exactly one
\* session-requested signal whose session id and peer id are both p and
\* which carries no session description.
PlayerConnectedRequestsSession ==
    \A p \in Players :
        (last.op = "handle" /\ last.frame = TextFrame("playerConnected", p)) =>
            /\ last.ev = << <<"session-requested", p, p, None>> >>
            /\ last.out = << >>

\* C13's case: the playerConnected of player "q" has been handled.
PlayerConnectedWitness ==
    last.op = "handle" /\ last.frame = TextFrame("playerConnected", "q")

\* C14: a session is requested on a connection only once an
\* endpointIdConfirm has been received on it.
SessionOnlyWhenIdentified ==
    (last.op = "handle" /\ last.ev # << >> /\ last.ev[1][1] = "session-requested")
        => last.conn \in confirmed

\* C15: playerDisconnected{playerId: p} raises session-ended for p alone and
\* leaves the connection as it is: both loops keep running, nothing of the
\* state changes, and a playerConnected that comes later, for a player whose
\* session was ended or for another, raises session-requested again.
PlayerDisconnectedEndsOneSession ==
    [][\A k \in Conns, p \in Players :
          /\ HandleStep(k, TextFrame("playerDisconnected", p)) =>
                /\ last'.ev = << <<"session-ended", p>> >>
                /\ ended' \ ended \subseteq {p}
                /\ recvPc'[k] = "recv"
                /\ UNCHANGED <<sendPc, websocket_sender, connect_task_handle,
                               send_task_handle, receive_task_handle, chan,
                               chanClosed, streamer_id, producers, medias>>
          /\ (ended # {} /\ HandleStep(k, TextFrame("playerConnected", p))) =>
                /\ last'.ev = << <<"session-requested", p, p, None>> >>
                /\ recvPc'[k] = "recv"]_vars

\* C15's case: player "p" connects again after its session was ended.
PlayerDisconnectedWitness ==
    /\ last.op = "handle"
    /\ last.frame = TextFrame("playerConnected", "p")
    /\ "p" \in ended
    /\ recvPc[last.conn] = "recv"
    /\ sendPc[last.conn] = "running"

\* A text frame that is not JSON or whose type tag is not a known one.
Malformed(frame) ==
    /\ frame.ws = "text"
    /\ ~frame.text.json \/ frame.text.tag \notin KnownTags

WellFormed ==
    { TextFrame("playerConnected", p) : p \in Players }
    \cup { TextFrame("playerDisconnected", p) : p \in Players }

\* C16: a malformed text frame is reported as exactly one error signal and
\* the connection stays up: the receive-loop goes on, and the well-formed
\* messages that arrive after it are dispatched as they otherwise are.
MalformedFrameReported ==
    [][\A k \in Conns :
          /\ \A f \in Frames :
                (Malformed(f) /\ HandleStep(k, f)) =>
                    /\ Len(last'.ev) = 1
                    /\ last'.ev[1][1] = "error"
                    /\ recvPc'[k] = "recv"
                    /\ UNCHANGED <<sendPc, websocket_sender, send_task_handle,
                                   receive_task_handle, chan, chanClosed>>
          /\ \A f \in WellFormed :
                (k \in garbled /\ HandleStep(k, f)) =>
                    last'.ev = << <<IF f.text.tag = "playerConnected"
                                     THEN "session-requested"
                                     ELSE "session-ended", f.text.arg>>
                                  \o (IF f.text.tag = "playerConnected"
                                      THEN <<f.text.arg, None>> ELSE << >>) >>
          /\ \A c \in Ids :
                (k \in garbled /\ ConfirmStep(k, c)) => streamer_id' = Some(c)]_vars

\* C16's case: a playerConnected is dispatched on a connection that received
\* a malformed frame before.
MalformedFrameWitness ==
    /\ last.op = "handle"
    /\ last.conn \in garbled
    /\ last.frame = TextFrame("playerConnected", "p")
    /\ last.ev # << >>

\* C17 as stated: an add_ice whose line index is beyond the recorded mid list
\* passes on an IceCandidate with sdpMid "" and that index, and raises no
\* error.
IceBeyondMidsFallsBack ==
    (last.op = "add_ice" /\ last.arg[2] >= Len(medias)) =>
        /\ last.out = Some(<<"iceCandidate", last.arg[1], "", last.arg[2]>>)
        /\ last.ev = << >>

\* C17: an add_ice whose line index is beyond the recorded mid list and fits
\* the signed 32-bit index of the message passes on an IceCandidate with
\* sdpMid "" and that index; for an index that does not fit, no message is
\* produced; in neither case is an error raised.
IceBeyondMidsFallsBackInRange ==
    (last.op = "add_ice" /\ last.arg[2] >= Len(medias)) =>
        /\ last.arg[2] <= I32Max =>
              last.out = Some(<<"iceCandidate", last.arg[1], "", last.arg[2]>>)
        /\ last.arg[2] > I32Max => last.out = None
        /\ last.ev = << >>

\* C17's case: a candidate for a line beyond a recorded, non-empty list has
\* been handed to the sender.
IceBeyondMidsWitness ==
    /\ last.op = "add_ice"
    /\ medias # << >>
    /\ last.arg[2] >= Len(medias)
    /\ last.arg[2] <= I32Max
    /\ last.queued

\* C30: send_sdp leaves as the recorded list the mids of the media lines of
\* the description it was given, one entry per line in SDP order, "" for a
\* line without a mid, whatever was recorded before; and an add_ice for a
\* line index within that list passes on an IceCandidate for the session
\* with the entry at that index as sdpMid and the index as sdpMLineIndex.
MidsRecordedInOrder ==
    /\ last.op = "send_sdp" =>
          /\ Len(medias) = Len(last.arg)
          /\ \A k \in 1 .. Len(last.arg) :
                medias[k] = IF last.arg[k] = None THEN "" ELSE last.arg[k][1]
    /\ (last.op = "add_ice" /\ last.arg[2] < Len(medias)) =>
          /\ last.out = Some(<<"iceCandidate", last.arg[1],
                               medias[last.arg[2] + 1], last.arg[2]>>)
          /\ last.ev = << >>

\* A description whose first line has no mid and whose second has mid "v"
\* was sent, and a candidate for line 1 has been handed to the sender.
MidsRecordedInOrderWitness ==
    /\ last.op = "add_ice"
    /\ medias = <<"", "v">>
    /\ last.arg[2] = 1
    /\ last.out = Some(<<"iceCandidate", last.arg[1], "v", 1>>)
    /\ last.queued

\* C18: stop() never waits for a task that itself waits for the state lock
\* stop() holds: whatever the connect task and the receive-loop are doing
\* when it is called, stop() can go on and return.
StopNeverDeadlocks ==
    /\ ~(stopPc = "joinConnect" /\ connectPc[stopJoin.connect] = "install")
    /\ ~(stopPc = "joinRecv" /\ stopJoin.recv # NoTask
           /\ recvPc[stopJoin.recv] = "lock")

\* C19: when stop() returns, every connect task, send-loop and receive-loop
\* spawned for the signaller has ended or been aborted.
NoTaskOutlivesStop ==
    [][(stopPc = "clear" /\ stopPc' = "idle") =>
          \A k \in Conns :
              /\ connectPc'[k] \in {"unborn", "done", "aborted"}
              /\ sendPc'[k] \in {"unborn", "done"}
              /\ recvPc'[k] \in {"unborn", "done", "aborted"}]_vars

\* C20: from the return of stop() to the next start() (and before any
\* start()) no sender and no task handle is stored and the session set is
\* empty; a stop() called then goes straight to its end, changing nothing.
StopIdempotent ==
    [][(~running /\ stopPc = "idle") =>
          /\ websocket_sender = NoTask
          /\ connect_task_handle = NoTask
          /\ send_task_handle = NoTask
          /\ receive_task_handle = NoTask
          /\ producers = {}
          /\ stopPc' # "idle" =>
                /\ stopPc' = "clear"
                /\ UNCHANGED <<websocket_sender, connect_task_handle,
                               send_task_handle, receive_task_handle,
                               producers, chanClosed, connectPc, recvPc,
                               sendPc>>]_vars

\* The connect task of connection k has failed: it ended without having
\* spawned its send-loop.
ConnectFailed(k) == connectPc[k] = "done" /\ sendPc[k] = "unborn"

\* C21: a connect() that fails in start()'s task is reported as one error
\* signal and that is all the attempt does: in the failing step no new
\* connect task is spawned and no sender or loop handle is stored, and from
\* then on the attempt stays ended, emits nothing more, has no send-loop and
\* no receive-loop, and neither the sender nor a loop handle is its own.
ConnectFailureReportedOnce ==
    [][\A k \in Conns :
          /\ (connectPc[k] = "connecting" /\ connectPc'[k] = "done") =>
                /\ last' = Did("connect", k, NoFrame,
                               <<ErrorSignal("receiving")>>, << >>, FALSE)
                /\ UNCHANGED <<nstarts, websocket_sender, send_task_handle,
                               receive_task_handle, sendPc, recvPc, chan>>
                /\ ConnectFailed(k)'
          /\ ConnectFailed(k) =>
                /\ ConnectFailed(k)'
                /\ recvPc'[k] = "unborn"
                /\ websocket_sender' # k
                /\ send_task_handle' # k
                /\ receive_task_handle' # k
                /\ (last' # last => ~(last'.op = "connect" /\ last'.conn = k))
                /\ (nstarts' # nstarts => stopPc = "idle" /\ running')]_vars

\* A second start() was made, its connect failed, and the first attempt's
\* sender is the one installed.
ConnectFailureWitness ==
    \E k \in Conns :
        /\ ConnectFailed(k)
        /\ last = Did("connect", k, NoFrame, <<ErrorSignal("receiving")>>,
                      << >>, FALSE)
        /\ websocket_sender \notin {NoTask, k}

--------------------------------------------------------------------------
(* The control-channel decoder: ue_pixelstreaming/message.rs *)

MaxPayload == 8
MaxPackets == 3

\* The byte values the packets are made of, and the tags they start with.
PayloadBytes == {0, 1, 255}
KnownTagBytes == {50, 51, 60, 61, 62, 70, 71, 72, 73, 74, 75, 76}
TagBytes == KnownTagBytes \cup {0, 99}

Ok(v)  == <<"Ok", v>>
Err(e) == <<"Err", e>>
IsOk(r) == r[1] = "Ok"

\* str::from_utf8 as read_to_string applies it to the rest of the buffer.
RECURSIVE Utf8Valid(_)
Utf8Valid(s) ==
    LET n == Len(s)
        Cont(i) == i <= n /\ s[i] \in 128 .. 191
        Rest(k) == Utf8Valid(SubSeq(s, k, n))
    IN  IF n = 0 THEN TRUE
        ELSE LET b == s[1] IN
             CASE b < 128 -> Rest(2)
               [] b \in 194 .. 223 -> Cont(2) /\ Rest(3)
               [] b = 224 -> 2 <= n /\ s[2] \in 160 .. 191 /\ Cont(3) /\ Rest(4)
               [] b \in (225 .. 236) \cup {238, 239} ->
                      Cont(2) /\ Cont(3) /\ Rest(4)
               [] b = 237 -> 2 <= n /\ s[2] \in 128 .. 159 /\ Cont(3) /\ Rest(4)
               [] b = 240 -> 2 <= n /\ s[2] \in 144 .. 191 /\ Cont(3) /\ Cont(4)
                               /\ Rest(5)
               [] b \in 241 .. 243 -> Cont(2) /\ Cont(3) /\ Cont(4) /\ Rest(5)
               [] b = 244 -> 2 <= n /\ s[2] \in 128 .. 143 /\ Cont(3) /\ Cont(4)
                               /\ Rest(5)
               [] OTHER -> FALSE

\* Cursor reads at byte offset pos of value: None stands for the io::Error of
\* a read past the end.
ReadU8Padded(value, pos) ==
    IF pos + 1 <= Len(value) THEN Some(value[pos + 1]) ELSE Some(0)

ReadU8(value, pos) ==
    IF pos + 1 <= Len(value) THEN Some(value[pos + 1]) ELSE None

ReadU16BigEndian(value, pos) ==
    IF pos + 2 <= Len(value)
    THEN Some(256 * value[pos + 1] + value[pos + 2])
    ELSE None

\* read_u16::<LittleEndian>
ReadU16(value, pos) ==
    IF pos + 2 <= Len(value)
    THEN Some(value[pos + 1] + 256 * value[pos + 2])
    ELSE None

ReadI16Unsigned(value, pos) == ReadU16(value, pos)

\* read_i16::<LittleEndian>
ReadI16(value, pos) ==
    LET u == ReadU16(value, pos)
    IN  IF u = None THEN None
        ELSE Some(IF u[1] >= 2^15 THEN u[1] - 2^16 ELSE u[1])

IoError == Err("io")

\* The ? of each field read: the first failed read is the function's result.
Fields(reads, message) ==
    IF \E i \in DOMAIN reads : reads[i] = None THEN IoError ELSE Ok(message)

UiInteractionTryFrom(value) ==
    IF Utf8Valid(value)
    THEN Ok([type |-> "UiInteraction", message |-> value])
    ELSE IoError

CommandTryFrom(value) ==
    IF Utf8Valid(value)
    THEN Ok([type |-> "Command", command |-> value])
    ELSE IoError

KeyDownTryFrom(value) ==
    LET key_code  == ReadU8(value, 0)
        is_repeat == ReadU8(value, 1)
    IN  Fields(<<key_code, is_repeat>>,
               [type |-> "KeyDown", key_code |-> UnwrapOr(key_code, 0),
                is_repeat |-> UnwrapOr(is_repeat, 0)])

KeyUpTryFrom(value) ==
    LET key_code == ReadU8(value, 0)
    IN  Fields(<<key_code>>,
               [type |-> "KeyUp", key_code |-> UnwrapOr(key_code, 0)])

KeyPressTryFrom(value) ==
    LET char_code == ReadU16(value, 0)
    IN  Fields(<<char_code>>,
               [type |-> "KeyPress", char_code |-> UnwrapOr(char_code, 0)])

MouseMoveTryFrom(value) ==
    LET x       == ReadU16(value, 0)
        y       == ReadU16(value, 2)
        delta_x == ReadI16(value, 4)
        delta_y == ReadI16(value, 6)
    IN  Fields(<<x, y, delta_x, delta_y>>,
               [type |-> "MouseMove", x |-> UnwrapOr(x, 0),
                y |-> UnwrapOr(y, 0), delta_x |-> UnwrapOr(delta_x, 0),
                delta_y |-> UnwrapOr(delta_y, 0)])

\* MouseDown, MouseUp and MouseDouble share one layout.
ButtonTryFrom(type, value) ==
    LET button == ReadU8(value, 0)
        x      == ReadU16(value, 1)
        y      == ReadU16(value, 3)
    IN  Fields(<<button, x, y>>,
               [type |-> type, button |-> UnwrapOr(button, 0),
                x |-> UnwrapOr(x, 0), y |-> UnwrapOr(y, 0)])

MouseDownTryFrom(value)   == ButtonTryFrom("MouseDown", value)
MouseUpTryFrom(value)     == ButtonTryFrom("MouseUp", value)
MouseDoubleTryFrom(value) == ButtonTryFrom("MouseDouble", value)

MouseWheelTryFrom(value) ==
    LET delta == ReadI16(value, 0)
        x     == ReadU16(value, 2)
        y     == ReadU16(value, 4)
    IN  Fields(<<delta, x, y>>,
               [type |-> "MouseWheel", delta |-> UnwrapOr(delta, 0),
                x |-> UnwrapOr(x, 0), y |-> UnwrapOr(y, 0)])

\* UeMessage::try_from
UeMessageTryFrom(value) ==
    IF Len(value) = 0 THEN Err("Invalid buffer for decoding UeMessage")
    ELSE LET id   == value[1]
             rest == SubSeq(value, 2, Len(value))
         IN  CASE id = 50 -> UiInteractionTryFrom(rest)
               [] id = 51 -> CommandTryFrom(rest)
               [] id = 60 -> KeyDownTryFrom(rest)
               [] id = 61 -> KeyUpTryFrom(rest)
               [] id = 62 -> KeyPressTryFrom(rest)
               [] id = 70 -> Ok([type |-> "MouseEnter"])
               [] id = 71 -> Ok([type |-> "MouseLeave"])
               [] id = 72 -> MouseDownTryFrom(rest)
               [] id = 73 -> MouseUpTryFrom(rest)
               [] id = 74 -> MouseMoveTryFrom(rest)
               [] id = 75 -> MouseWheelTryFrom(rest)
               [] id = 76 -> MouseDoubleTryFrom(rest)
               [] OTHER -> Err("Not supported message type")

\* The wire form of a MouseMove as the peer writes it: the tag, then the
\* four fields, each as two bytes, low byte first, negative deltas in two's
\* complement.
EncodeU16(v) == <<v % 256, v \div 256>>
EncodeI16(v) == EncodeU16(IF v < 0 THEN v + 2^16 ELSE v)
EncodeMouseMove(m) ==
    <<74>> \o EncodeU16(m.x) \o EncodeU16(m.y) \o EncodeI16(m.delta_x)
           \o EncodeI16(m.delta_y)

\* The inputs of the decoder.
Payloads == UNION {[1 .. n -> PayloadBytes] : n \in 0 .. MaxPayload}
ExamplePackets ==
    { <<60, 65, 0>>, <<75, 246, 255, 50, 0, 60, 0>>, <<99>>, <<60, 65>>,
      <<74, 1, 0>>, <<50, 195, 169>>, <<51, 104, 105>> }
Packets ==
    {<< >>} \cup ExamplePackets
            \cup {<<t>> \o p : t \in TagBytes, p \in Payloads}
U16Samples == {0, 100, 200, 255, 256, 2^16 - 1}
I16Samples == {-(2^15), -5, -1, 0, 3, 2^15 - 1}
MouseMoves ==
    [type : {"MouseMove"}, x : U16Samples, y : U16Samples,
     delta_x : I16Samples, delta_y : I16Samples]
NoSample   == [type |-> "none"]
NotDecoded == <<"?", << >>>>
\* The buffer of a MouseMove not yet encoded: no byte sequence.
Unwritten  == <<-1>>

\* The packets of the data channel of ChannelSpec.
ChannelPackets ==
    { << >>, <<99>>, <<60, 65>>, <<74, 1, 0>>, <<60, 65, 0>>, <<70>>,
      <<75, 246, 255, 50, 0, 60, 0>> }

MaxHandlers == 2    \* consumers added, each with its handler
MaxEvents   == 3    \* events waiting in add_remove_handlers
MaxArrivals == 2    \* packets a data channel delivers

HandlerIds == 1 .. MaxHandlers
NoHandler  == 0

\* create_pixelstreaming_controller: an empty event channel and an empty
\* registry; no consumer yet.
RegInit ==
    /\ add_remove_handlers = << >>
    /\ handlers = {}
    /\ made = 0
    /\ inbox = [h \in HandlerIds |-> << >>]
    /\ dropped = {}
    /\ arrived = [h \in HandlerIds |-> << >>]
    /\ consumed = [h \in HandlerIds |-> << >>]
    /\ recent = [peer_id \in Players |-> NoHandler]
    /\ panicked = FALSE

MsgInit ==
    /\ sample = NoSample
    /\ data = << >>
    /\ decoded = NotDecoded
    /\ packets = << >>
    /\ message_receiver = << >>
    /\ events = << >>
    /\ warned = 0
    /\ RegInit

\* A packet to decode, or a MouseMove to encode first.
DecodeInit ==
    /\ \/ sample = NoSample /\ data \in Packets
       \/ sample \in MouseMoves /\ data = Unwritten
    /\ decoded = NotDecoded
    /\ packets = << >>
    /\ message_receiver = << >>
    /\ events = << >>
    /\ warned = 0
    /\ RegInit

Encode ==
    /\ sample # NoSample
    /\ data = Unwritten
    /\ data' = EncodeMouseMove(sample)
    /\ UNCHANGED <<sample, decoded, packets, message_receiver, events, warned,
                   regVars,
                   poolVars, enabled, pipeVars, drvVars, sigVars, wrkVars>>

Decode ==
    /\ data # Unwritten
    /\ decoded = NotDecoded
    /\ decoded' = UeMessageTryFrom(data)
    /\ UNCHANGED <<sample, data, packets, message_receiver, events, warned,
                   regVars,
                   poolVars, enabled, pipeVars, drvVars, sigVars, wrkVars>>

\* A callback that gives up the queue on a packet it cannot decode.
DeliverOrFlush(queue, res) ==
    IF IsOk(res) THEN Append(queue, res[2]) ELSE << >>

\* The match of the on-message-data closure: send the message, or warn.
Deliver(queue, res) ==
    IF IsOk(res) THEN Append(queue, res[2]) ELSE queue

\* The on-message-data closure, run for one packet of the data channel.
OnMessageData(pkt) ==
    /\ Len(packets) < MaxPackets
    /\ packets' = Append(packets, pkt)
    /\ LET res == UeMessageTryFrom(pkt)
       IN  /\ message_receiver' = Deliver(message_receiver, res)
           /\ warned' = IF IsOk(res) THEN warned ELSE warned + 1
    /\ UNCHANGED <<sample, data, decoded, events, regVars,
                   poolVars, enabled, pipeVars, drvVars, sigVars, wrkVars>>

\* handle_controller_messages: message_receiver.try_iter() takes all that
\* is queued.
TryIter ==
    /\ message_receiver # << >>
    /\ events' = events \o message_receiver
    /\ message_receiver' = << >>
    /\ UNCHANGED <<sample, data, decoded, packets, warned, regVars,
                   poolVars, enabled, pipeVars, drvVars, sigVars, wrkVars>>

\* The decoder has returned.
Decoded == decoded # NotDecoded

\* The packet decoded is tag t followed by exactly n bytes.
Packet(t, n) == Len(data) = n + 1 /\ data[1] = t

\* The unsigned and the signed 16-bit number of two bytes, low byte first.
LE16(lo, hi) == lo + 256 * hi
Signed16(u) == IF u >= 32768 THEN u - 65536 ELSE u

\* The decoder returned message m.
Gives(m) == IsOk(decoded) /\ decoded[2] = m

\* C22: the first byte selects the message type and the bytes after it are
\* its fields in declaration order, 16-bit fields low byte first, deltas
\* signed: KeyDown(60), KeyUp(61), KeyPress(62), MouseEnter(70),
\* MouseLeave(71), MouseDown(72), MouseUp(73), MouseMove(74), MouseWheel(75),
\* MouseDouble(76); [75,0xF6,0xFF,50,0,60,0] is MouseWheel{-10,50,60}.
DecoderLayout ==
    Decoded =>
      /\ Packet(60, 2) => Gives([type |-> "KeyDown", key_code |-> data[2],
                                 is_repeat |-> data[3]])
      /\ Packet(61, 1) => Gives([type |-> "KeyUp", key_code |-> data[2]])
      /\ Packet(62, 2) => Gives([type |-> "KeyPress",
                                 char_code |-> LE16(data[2], data[3])])
      /\ Packet(70, 0) => Gives([type |-> "MouseEnter"])
      /\ Packet(71, 0) => Gives([type |-> "MouseLeave"])
      /\ \A b \in {<<72, "MouseDown">>, <<73, "MouseUp">>,
                   <<76, "MouseDouble">>} :
            Packet(b[1], 5) =>
                Gives([type |-> b[2], button |-> data[2],
                       x |-> LE16(data[3], data[4]),
                       y |-> LE16(data[5], data[6])])
      /\ Packet(74, 8) =>
            Gives([type |-> "MouseMove", x |-> LE16(data[2], data[3]),
                   y |-> LE16(data[4], data[5]),
                   delta_x |-> Signed16(LE16(data[6], data[7])),
                   delta_y |-> Signed16(LE16(data[8], data[9]))])
      /\ Packet(75, 6) =>
            Gives([type |-> "MouseWheel",
                   delta |-> Signed16(LE16(data[2], data[3])),
                   x |-> LE16(data[4], data[5]),
                   y |-> LE16(data[6], data[7])])
      /\ data = <<75, 246, 255, 50, 0, 60, 0>> =>
            Gives([type |-> "MouseWheel", delta |-> -10, x |-> 50, y |-> 60])
      /\ data = <<60, 65, 0>> =>
            Gives([type |-> "KeyDown", key_code |-> 65, is_repeat |-> 0])

\* The MouseWheel of the example has been decoded.
DecoderLayoutWitness ==
    /\ data = <<75, 246, 255, 50, 0, 60, 0>>
    /\ IsOk(decoded)
    /\ decoded[2].type = "MouseWheel"
    /\ decoded[2].delta = -10

\* C23: a MouseMove written as tag 74 and its four fields, low byte first,
\* decodes to the MouseMove that was written.
MouseMoveRoundTrip ==
    (sample # NoSample /\ Decoded) =>
        /\ data = EncodeMouseMove(sample)
        /\ Len(data) = 9
        /\ data[1] = 74
        /\ Gives(sample)

\* MouseMove{x=100, y=200, delta_x=-5, delta_y=3} has made the round trip.
MouseMoveRoundTripWitness ==
    /\ sample = [type |-> "MouseMove", x |-> 100, y |-> 200, delta_x |-> -5,
                 delta_y |-> 3]
    /\ data = <<74, 100, 0, 200, 0, 251, 255, 3, 0>>
    /\ Gives(sample)

\* The number of payload bytes of the fixed layout of tag t.
PayloadSize(t) ==
    CASE t \in {60, 62} -> 2
      [] t = 61 -> 1
      [] t \in {72, 73, 76} -> 5
      [] t = 74 -> 8
      [] t = 75 -> 6
      [] OTHER -> 0

\* The buffer is empty, starts with an unknown tag or is shorter than the
\* layout of its tag.
Invalid(value) ==
    \/ value = << >>
    \/ value[1] \notin KnownTagBytes
    \/ Len(value) - 1 < PayloadSize(value[1])

\* C24: the decoder returns for every buffer, and for an empty buffer, an
\* unknown first byte or a payload shorter than the layout of its tag what
\* it returns is an error.
DecodeErrors ==
    Decoded =>
        /\ decoded[1] \in {"Ok", "Err"}
        /\ Invalid(data) => decoded[1] = "Err"
        /\ data \in {<< >>, <<99>>, <<60, 65>>, <<74, 1, 0>>} =>
              decoded[1] = "Err"

\* The truncated MouseMove [74,1,0] has been refused.
DecodeErrorsWitness ==
    /\ data = <<74, 1, 0>>
    /\ decoded = IoError

\* The messages of the packets of pkts that decode, in their order.
RECURSIVE Decodable(_)
Decodable(pkts) ==
    IF pkts = << >> THEN << >>
    ELSE LET res == UeMessageTryFrom(Head(pkts))
         IN  (IF IsOk(res) THEN <<res[2]>> ELSE << >>)
                 \o Decodable(Tail(pkts))

--------------------------------------------------------------------------
(* 4.4 Delivery Worker, taken alone with its two queues (WorkerSpec) *)

MaxJobs    == 2
NumPools   == 2
NumBuffers == 2

Pools   == 1 .. NumPools
Buffers == 0 .. (NumBuffers - 1)

\* A ReadbackJob for buffer b of pool p: the handler builds it with the media
\* sink of the CaptureTarget that owns the pool.
ReadbackJob(p, b) == [sink |-> p, pool |-> p, buffer |-> b]

\* The ReleaseSignal of a job.
ReleaseSignal(job) == <<job.pool, job.buffer>>

\* A worker that pushes every frame to the sink of the first target.
PushSinkFirst(job) == 1

\* The media sink the worker pushes the frame of a job to.
PushSink(job) == job.sink

\* What the worker did, in order.
Pushed(job, ok) ==
    [ev |-> "push", sink |-> PushSink(job), pool |-> job.pool,
     buffer |-> job.buffer, ok |-> ok]
Emitted(job, sent) ==
    [ev |-> IF sent THEN "emit" ELSE "drop", sink |-> job.sink,
     pool |-> ReleaseSignal(job)[1], buffer |-> ReleaseSignal(job)[2],
     ok |-> sent]

WrkInit ==
    /\ job_queue = << >>
    /\ jobs_closed = FALSE
    /\ wpc = "recv"
    /\ wjob = NoJob
    /\ release_queue = << >>
    /\ release_closed = FALSE
    /\ wlog = << >>
    /\ wsent = << >>

\* The Readback Completion Handler sends a job (non-blocking).
SendJob(p, b) ==
    /\ ~jobs_closed
    /\ Len(wsent) < MaxJobs
    /\ job_queue' = Append(job_queue, ReadbackJob(p, b))
    /\ wsent' = Append(wsent, ReadbackJob(p, b))
    /\ UNCHANGED <<jobs_closed, wpc, wjob, release_queue, release_closed,
                   wlog>>
    /\ UNCHANGED <<poolVars, enabled, pipeVars, drvVars, sigVars, msgVars>>

\* Shutdown: the sending side of the job queue goes away.
CloseJobQueue ==
    /\ ~jobs_closed
    /\ jobs_closed' = TRUE
    /\ UNCHANGED <<job_queue, wpc, wjob, release_queue, release_closed, wlog,
                   wsent>>
    /\ UNCHANGED <<poolVars, enabled, pipeVars, drvVars, sigVars, msgVars>>

\* Shutdown: the receiving side of the release-signal channel goes away.
CloseReleaseChannel ==
    /\ ~release_closed
    /\ release_closed' = TRUE
    /\ UNCHANGED <<job_queue, jobs_closed, wpc, wjob, release_queue, wlog,
                   wsent>>
    /\ UNCHANGED <<poolVars, enabled, pipeVars, drvVars, sigVars, msgVars>>

\* The worker receives one job, reads the mapped bytes and pushes the frame
\* to the job's sink; a failed push is logged.
WorkerReceive(ok) ==
    /\ wpc = "recv"
    /\ job_queue # << >>
    /\ wjob' = Head(job_queue)
    /\ job_queue' = Tail(job_queue)
    /\ wlog' = Append(wlog, Pushed(Head(job_queue), ok))
    /\ wpc' = "emit"
    /\ UNCHANGED <<jobs_closed, release_queue, release_closed, wsent>>
    /\ UNCHANGED <<poolVars, enabled, pipeVars, drvVars, sigVars, msgVars>>

\* The worker emits the ReleaseSignal of the job it holds; on a closed
\* channel the signal is dropped and logged.
WorkerRelease ==
    /\ wpc = "emit"
    /\ release_queue' = IF release_closed THEN release_queue
                        ELSE Append(release_queue, ReleaseSignal(wjob))
    /\ wlog' = Append(wlog, Emitted(wjob, ~release_closed))
    /\ wjob' = NoJob
    /\ wpc' = "recv"
    /\ UNCHANGED <<job_queue, jobs_closed, release_closed, wsent>>
    /\ UNCHANGED <<poolVars, enabled, pipeVars, drvVars, sigVars, msgVars>>

\* The blocking receive returns "closed": the loop ends.
WorkerStop ==
    /\ wpc = "recv"
    /\ job_queue = << >>
    /\ jobs_closed
    /\ wpc' = "stopped"
    /\ UNCHANGED <<job_queue, jobs_closed, wjob, release_queue,
                   release_closed, wlog, wsent>>
    /\ UNCHANGED <<poolVars, enabled, pipeVars, drvVars, sigVars, msgVars>>

\* The release drain of a tick takes every pending signal.
DrainReleases ==
    /\ ~release_closed
    /\ release_queue # << >>
    /\ release_queue' = << >>
    /\ UNCHANGED <<job_queue, jobs_closed, wpc, wjob, release_closed, wlog,
                   wsent>>
    /\ UNCHANGED <<poolVars, enabled, pipeVars, drvVars, sigVars, msgVars>>

\* The number of jobs the worker has received.
Received == Len(wsent) - Len(job_queue)

\* C27: the worker takes the jobs in the order they were sent and for each
\* does one push_frame, to the sink of that job, and then one emission of a
\* ReleaseSignal with that job's pool and buffer index (dropped only when
\* the release channel is closed); nothing else is pushed or emitted, and
\* the signal of a job never precedes its push.
WorkerPushThenRelease ==
    /\ Len(wlog) = IF wpc = "emit" THEN 2 * Received - 1 ELSE 2 * Received
    /\ \A k \in 1 .. Received :
          /\ wlog[2 * k - 1].ev = "push"
          /\ wlog[2 * k - 1].sink = wsent[k].sink
          /\ wlog[2 * k - 1].pool = wsent[k].pool
          /\ wlog[2 * k - 1].buffer = wsent[k].buffer
          /\ 2 * k <= Len(wlog) =>
                /\ wlog[2 * k].ev \in {"emit", "drop"}
                /\ wlog[2 * k].pool = wsent[k].pool
                /\ wlog[2 * k].buffer = wsent[k].buffer
                /\ wlog[2 * k].ev = "drop" => release_closed
    /\ wpc = "emit" <=> wjob # NoJob
    /\ wpc = "emit" => wjob = wsent[Received]
    /\ Len(release_queue) <= Cardinality({k \in 1 .. Len(wlog) :
                                              wlog[k].ev = "emit"})

\* Jobs of two targets have been delivered, the first push having failed,
\* and both signals are in the release queue.
WorkerPushThenReleaseWitness ==
    /\ Len(wlog) = 4
    /\ wlog[1].ev = "push" /\ ~wlog[1].ok /\ wlog[1].sink = 2
    /\ wlog[3].ev = "push" /\ wlog[3].sink = 1
    /\ release_queue = <<<<2, wlog[1].buffer>>, <<1, wlog[3].buffer>>>>

\* The shutdown of the worker: it stops only on a closed and empty job
\* queue, having pushed and released every job that was sent; an emission
\* on a closed release channel neither ends nor blocks it, the signal being
\* dropped; and on a closed, empty queue it can stop.
WorkerDrainsThenStops ==
    /\ wpc = "stopped" =>
          /\ jobs_closed
          /\ job_queue = << >>
          /\ Len(wlog) = 2 * Len(wsent)
    /\ wpc = "emit" => ENABLED WorkerRelease
    /\ (wpc = "recv" /\ jobs_closed /\ job_queue = << >>) => ENABLED WorkerStop
    /\ \A k \in 1 .. Len(wlog) :
          wlog[k].ev = "drop" => release_closed

\* The release-signal channel of the pipeline has been closed. The pipeline
\* of Spec runs with both channels of the worker open.
ReleaseChannelClosed == release_closed

\* C29: the worker ends once the closed job queue is empty, and a signal
\* emitted on a closed release channel is dropped, its slot staying in use
\* for ever; this is the only way a claimed slot is never set free: a slot
\* stays in use for ever only if the release channel has been closed.
SlotLostOnlyAtShutdown ==
    \A t \in Targets, i \in Slots :
        <>[]in_use[t][i] => <>ReleaseChannelClosed

--------------------------------------------------------------------------
(* Sessions of the signaller (IceSpec, SessSpec, OrderSpec, OfflineSpec) *)

\* The mid of media line idx of a description, "" for a line without one.
MidOfLine(sdp, idx) == UnwrapOr(sdp[idx + 1], "")

\* C31: the mid list belongs to the session: the sdpMid of an outbound
\* IceCandidate of session A at line index i is the i-th mid of the
\* description most recently sent for session A, whatever was sent for
\* another session in between.
MidListPerSession ==
    \A p \in Players :
        (/\ last.op = "add_ice"
         /\ last.arg[1] = p
         /\ last.out # None
         /\ sdp_of[p] # None
         /\ last.arg[2] < Len(sdp_of[p][1]))
            => last.out[1][3] = MidOfLine(sdp_of[p][1], last.arg[2])

\* The receive-loop continues after the step: it is where it takes a frame.
LoopContinues(k) == recvPc'[k] = "recv"

\* C32: an inbound iceCandidate is forwarded to the media layer, with its
\* player id, line index, mid and candidate string, exactly when it carries
\* a playerId and a candidate object and its sdpMLineIndex is not negative;
\* otherwise nothing is forwarded and no error is raised; either way the
\* receive-loop goes on to the next message.
InboundIceForwarded ==
    [][(/\ last' # last
        /\ last'.op = "handle"
        /\ last'.frame.text.tag = "iceCandidate") =>
           LET m == last'.frame.text
           IN  /\ recvPc[last'.conn] = "recv"
               /\ LoopContinues(last'.conn)
               /\ IF /\ m.player_id # None
                     /\ m.candidate # None
                     /\ m.candidate[1].sdp_m_line_index >= 0
                  THEN last'.ev =
                           << <<"handle-ice", m.player_id[1],
                                m.candidate[1].sdp_m_line_index,
                                m.candidate[1].sdp_mid,
                                m.candidate[1].candidate>> >>
                  ELSE last'.ev = << >>]_vars

\* C32's case: the candidate of player "p" for line 1 has been forwarded and
\* the loop is ready for the next message.
InboundIceWitness ==
    /\ last.op = "handle"
    /\ last.ev = << <<"handle-ice", "p", 1, "v", "c">> >>
    /\ recvPc[last.conn] = "recv"

\* C33: an offer or answer for a player whose SDP cannot be parsed is
\* reported as an error and confined to that session: the receive-loop goes
\* on receiving and dispatching the messages that follow.
SdpErrorConfined ==
    [][(/\ last' # last
        /\ last'.op = "handle"
        /\ last'.frame.text.tag \in {"offer", "answer"}
        /\ last'.frame.text.player_id # None
        /\ last'.frame.text.sdp # GoodSdp) =>
           /\ last'.ev = << <<"error", "parsing sdp">> >>
           /\ LoopContinues(last'.conn)]_vars

\* C34: the tracked session set mirrors the live sessions: it holds exactly
\* the players for which a playerConnected has been received and no
\* playerDisconnected, end_session or stop has come since.
ProducersMirrorSessions == producers = sessions

\* The session an outbound message belongs to.
SessionOf(task) == task[2][2]

\* C35: outbound messages reach the websocket in the order in which the
\* operations that produced them were invoked: of two messages of a session
\* handed to send() and not yet on the channel (the Offer of a send_sdp and
\* the IceCandidate of a later add_ice, or the DisconnectPlayer of a later
\* end_session), the later one does not go on the channel first.
OutboundInCallOrder ==
    [][\A i, j \in 1 .. Len(spawned) :
          (/\ i < j
           /\ SessionOf(spawned[i]) = SessionOf(spawned[j])
           /\ spawned[i] # spawned[j])
              => spawned' # Without(spawned, j)]_vars

\* Of what an operation did, the part every operation fills in alike.
Shown(did) == <<did.op, did.conn, did.frame, did.ev, did.out, did.queued>>

\* The step is a send_sdp, an add_ice, an end_session or the reply to an
\* identify request.
SendingStep ==
    /\ Shown(last') # Shown(last) \/ medias' # medias
    /\ \/ last'.op \in {"send_sdp", "add_ice", "end_session"}
       \/ last'.op = "handle" /\ last'.frame = TextFrame("identify", "")

\* C36: without an outbound sender installed, send_sdp, add_ice, end_session
\* and the reply to identify are silent no-ops: no message is enqueued or
\* written, no error event is raised, the task handles and the stored
\* streamer id stay as they are; send_sdp still overwrites the recorded mid
\* list with the mids of its description.
NoSenderNoOp ==
    [][(websocket_sender = NoTask /\ SendingStep) =>
          /\ spawned' = spawned
          /\ chan' = chan
          /\ last'.ev = << >>
          /\ UNCHANGED <<websocket_sender, connect_task_handle,
                         send_task_handle, receive_task_handle, streamer_id>>
          /\ IF last'.op = "send_sdp"
             THEN medias' = [k \in 1 .. Len(last'.arg) |->
                               IF last'.arg[k] = None THEN ""
                               ELSE last'.arg[k][1]]
             ELSE medias' = medias]_vars

\* C36's case: the connection has been stopped, and an end_session called
\* after that found no sender.
NoSenderWitness ==
    /\ nstarts = 1
    /\ ~running
    /\ websocket_sender = NoTask
    /\ last.op = "end_session"
    /\ ~last.queued

\* The receive-loop of connection k handles a frame of kind ws in the step.
HandlesFrame(k, ws) ==
    /\ recvPc[k] = "recv"
    /\ last' # last
    /\ last'.op = "handle"
    /\ last'.conn = k
    /\ last'.frame.ws = ws

\* stop() is at work before or after the step.
Stopping == stopPc # "idle" \/ stopPc' # "idle"

\* C37: a Close frame or a transport error ends the receive-loop, the error
\* with one error event and the Close frame with none; another non-text
\* frame is ignored and the loop continues; once the loop has ended it
\* dispatches no further message, and the outbound sender and the send-loop
\* handle stay installed until stop() takes them.
ReceiveLoopEnds ==
    [][\A k \in Conns :
          /\ HandlesFrame(k, "close") =>
                recvPc'[k] = "done" /\ last'.ev = << >>
          /\ HandlesFrame(k, "error") =>
                recvPc'[k] = "done" /\ last'.ev = << <<"error", "receiving">> >>
          /\ HandlesFrame(k, "other") =>
                recvPc'[k] = "recv" /\ last'.ev = << >>
          /\ recvPc[k] = "done" =>
                /\ recvPc'[k] = "done"
                /\ ~(last' # last /\ last'.op = "handle" /\ last'.conn = k)
          /\ (recvPc'[k] = "done" /\ websocket_sender = k /\ ~Stopping) =>
                /\ websocket_sender' = k
                /\ send_task_handle' = send_task_handle
                /\ send_task_handle = k]_vars

\* C37's case: the server has closed the stream, the receive-loop has ended
\* and the sender and the send-loop are still installed.
ReceiveLoopEndsWitness ==
    /\ last.op = "handle"
    /\ last.frame.ws = "close"
    /\ recvPc[1] = "done"
    /\ websocket_sender = 1
    /\ send_task_handle = 1
    /\ sendPc[1] = "running"

--------------------------------------------------------------------------
(* The handler registry of a controller (RegistrySpec): helper.rs           *)
(* create_pixelstreaming_controller, lib.rs handle_controllers and          *)
(* handle_controller_messages, ue_pixelstreaming/handler.rs                 *)

\* The packets of the data channels of RegistrySpec: MouseEnter, a KeyDown
\* and one that does not decode.
RegistryPackets == { <<70>>, <<60, 65, 0>>, <<99>> }

\* An insert that keeps the entry the peer id had.
InsertKeepingBoth(map, peer_id, h) == map \cup {<<peer_id, h>>}

\* HashMap::insert: the entry of the peer id, if any, gives way.
Insert(map, peer_id, h) ==
    { e \in map : e[1] # peer_id } \cup {<<peer_id, h>>}

\* HashMap::remove
Remove(map, peer_id) == { e \in map : e[1] # peer_id }

\* The loop of handle_controllers over add_remove_handlers.try_iter().
RECURSIVE ApplyEvents(_, _)
ApplyEvents(map, evs) ==
    IF evs = << >> THEN map
    ELSE LET peer_id == Head(evs)[1]
             handler == Head(evs)[2]
         IN  ApplyEvents(IF handler # NoHandler
                         THEN Insert(map, peer_id, handler)
                         ELSE Remove(map, peer_id),
                         Tail(evs))

\* The handlers a registry holds.
Registered(map) == { e[2] : e \in map }

\* "consumer-added": a handler is made for the peer, with its data channel
\* and its callback, and sent to the controller.
ConsumerAdded(peer_id) ==
    /\ ~panicked
    /\ made < MaxHandlers
    /\ Len(add_remove_handlers) < MaxEvents
    /\ made' = made + 1
    /\ add_remove_handlers' =
          Append(add_remove_handlers, <<peer_id, made + 1>>)
    /\ UNCHANGED <<handlers, inbox, dropped, arrived, consumed, recent,
                   panicked, chanVars, poolVars, enabled, pipeVars, drvVars,
                   sigVars, wrkVars>>

\* "consumer-removed": (peer id, None) is sent to the controller.
ConsumerRemoved(peer_id) ==
    /\ ~panicked
    /\ Len(add_remove_handlers) < MaxEvents
    /\ add_remove_handlers' =
          Append(add_remove_handlers, <<peer_id, NoHandler>>)
    /\ UNCHANGED <<handlers, made, inbox, dropped, arrived, consumed, recent,
                   panicked, chanVars, poolVars, enabled, pipeVars, drvVars,
                   sigVars, wrkVars>>

\* The last event of evs for the peer: its handler, or `before` without one.
LastEvent(evs, peer_id, before) ==
    LET mine == SelectSeq(evs, LAMBDA e : e[1] = peer_id)
    IN  IF mine = << >> THEN before ELSE mine[Len(mine)][2]

\* handle_controllers: apply every queued event; a handler that leaves the
\* registry, or never stays in it, is dropped with its receiver.
HandleControllers ==
    /\ ~panicked
    /\ add_remove_handlers # << >>
    /\ handlers' = ApplyEvents(handlers, add_remove_handlers)
    /\ dropped' =
          dropped \cup
             ((Registered(handlers)
                  \cup { add_remove_handlers[k][2] :
                            k \in 1 .. Len(add_remove_handlers) })
              \ (Registered(handlers') \cup {NoHandler}))
    /\ recent' = [peer_id \in Players |->
                     LastEvent(add_remove_handlers, peer_id, recent[peer_id])]
    /\ add_remove_handlers' = << >>
    /\ UNCHANGED <<made, inbox, arrived, consumed, panicked, chanVars,
                   poolVars, enabled, pipeVars, drvVars, sigVars, wrkVars>>

\* The on-message-data closure of handler h, run for one packet: a message
\* that decodes is sent on the handler's channel, and the unwrap of that
\* send panics once the receiver has been dropped.
HandlerOnMessageData(h, pkt) ==
    /\ ~panicked
    /\ h \in 1 .. made
    /\ Len(arrived[h]) < MaxArrivals
    /\ arrived' = [arrived EXCEPT ![h] = Append(@, pkt)]
    /\ LET res == UeMessageTryFrom(pkt)
       IN  IF h \in dropped /\ IsOk(res)
           THEN /\ panicked' = TRUE
                /\ UNCHANGED inbox
           ELSE /\ inbox' = [inbox EXCEPT ![h] = Deliver(@, res)]
                /\ UNCHANGED panicked
    /\ UNCHANGED <<add_remove_handlers, handlers, made, dropped, consumed,
                   recent, chanVars, poolVars, enabled, pipeVars, drvVars,
                   sigVars, wrkVars>>

\* handle_controller_messages: for every registered handler, translate all
\* that message_receiver.try_iter() yields.
HandleControllerMessages ==
    /\ ~panicked
    /\ \E h \in Registered(handlers) : inbox[h] # << >>
    /\ consumed' = [h \in HandlerIds |->
                       IF h \in Registered(handlers)
                       THEN consumed[h] \o inbox[h] ELSE consumed[h]]
    /\ inbox' = [h \in HandlerIds |->
                    IF h \in Registered(handlers) THEN << >> ELSE inbox[h]]
    /\ UNCHANGED <<add_remove_handlers, handlers, made, dropped, arrived,
                   recent, panicked, chanVars, poolVars, enabled, pipeVars,
                   drvVars, sigVars, wrkVars>>

\* C38: decoded control messages are consumed once and in order: for each
\* data channel, the messages handed to the input translation, followed by
\* those still held in its channel, are exactly the packets that decoded, in
\* order of arrival; what decodes before handle_controllers has registered
\* the handler is held and handed over after registration.
ControlMessagesConsumedOnce ==
    \A h \in 1 .. made :
        consumed[h] \o inbox[h] = Decodable(arrived[h])

\* The registry of the events applied so far: for each peer whose last
\* event was an add, the handler of that add.
LastAdds ==
    { <<peer_id, recent[peer_id]>> :
         peer_id \in { q \in Players : recent[q] # NoHandler } }

\* C39: handle_controllers applies the queued events in order of arrival:
\* a peer has a registered handler iff the last event applied for it was an
\* add, and then the handler of that add alone (a second add replaces the
\* first); a remove for a peer without one changes nothing, and the events
\* of one peer leave the entries of the others as they were.
RegistryFollowsEvents ==
    /\ handlers = LastAdds
    /\ \A peer_id \in Players :
          Cardinality({ e \in handlers : e[1] = peer_id }) <= 1

\* C39's case: peer "p" was added twice; it holds the handler of its second
\* add, and the first has been dropped.
RegistryWitness ==
    /\ handlers = {<<"p", 2>>}
    /\ dropped = {1}
    /\ add_remove_handlers = << >>
    /\ made = 2

--------------------------------------------------------------------------
(* Specifications *)

PoolNext ==
    \/ PAcquire /\ UNCHANGED <<enabled, pipeVars, drvVars, sigVars, msgVars, wrkVars>>
    \/ \E i \in 0 .. (MaxPoolSize - 1) :
          PRelease(i) /\ UNCHANGED <<enabled, pipeVars, drvVars, sigVars, msgVars, wrkVars>>

PoolStart == PoolInit /\ EnabledInit /\ PipeInit /\ DrvInit /\ SigInit
             /\ MsgInit /\ WrkInit

PoolSpec == PoolStart /\ [][PoolNext]_vars

Init == PoolQuiet /\ EnabledInit /\ PipeInit /\ DrvInit /\ SigInit
             /\ MsgInit /\ WrkInit

Next ==
    \/ \E t \in Targets : Toggle(t)
    \/ Scheduler
    \/ Handler
    \/ \E t \in Targets, i \in Slots, ok \in BOOLEAN : MapCallback(t, i, ok)
    \/ \E ok \in BOOLEAN : WorkerPush(ok)
    \/ WorkerEmit
    \/ Drain

Spec == Init /\ [][Next]_vars

\* A running render loop takes every tick step; the device resolves every
\* pending map; the worker thread keeps running.
Fairness ==
    /\ WF_vars(Scheduler)
    /\ WF_vars(Handler)
    /\ WF_vars(Drain)
    /\ \A t \in Targets, i \in Slots :
          WF_vars(\E ok \in BOOLEAN : MapCallback(t, i, ok))
    /\ WF_vars(\E ok \in BOOLEAN : WorkerPush(ok))
    /\ WF_vars(WorkerEmit)

FairSpec == Spec /\ Fairness

DriverNext ==
    \/ CaptureDriverRun
    \/ \E t \in Captures : ToggleCapture(t)
    \/ \E t \in Captures : SetTexture(t)
    \/ \E t \in Captures : SetMemory(t)
    \/ \E t \in Captures : SetSink(t)

DriverSpec == Init /\ [][DriverNext]_vars

\* The frames of the identification exchange and the end of the stream.
LifeFrames ==
    { f \in Frames : \/ f.ws = "close"
                     \/ f.ws = "text" /\ f.text.tag = "identify"
                     \/ f.ws = "text" /\ f.text.tag = "endpointIdConfirm"
                                      /\ f.text.arg = "a" }

\* The signaller's life: starts and stops against its three kinds of tasks.
SigNext ==
    \/ Start
    \/ \E k \in Conns : ConnectOk(k)
    \/ \E k \in Conns : ConnectFail(k)
    \/ \E k \in Conns : ConnectInstall(k)
    \/ \E k \in Conns, frame \in LifeFrames : Receive(k, frame)
    \/ \E k \in Conns : RecvLocked(k)
    \/ SendTask
    \/ \E k \in Conns : SendLoop(k)
    \/ \E k \in Conns : SendLoopFail(k)
    \/ StopBegin
    \/ StopJoinConnect
    \/ StopJoinSend
    \/ StopJoinRecv
    \/ StopEnd

SigSpec == Init /\ [][SigNext]_vars

\* One connection and everything the server may send on it.
RecvNext ==
    \/ \E v \in Ids : SetStreamerId(v)
    \/ nstarts = 0 /\ Start
    \/ \E k \in Conns : ConnectOk(k)
    \/ \E k \in Conns : ConnectInstall(k)
    \/ \E k \in Conns, frame \in Frames : Receive(k, frame)
    \/ \E k \in Conns : RecvLocked(k)
    \/ SendTask
    \/ \E k \in Conns : SendLoop(k)

RecvSpec == Init /\ [][RecvNext]_vars

\* One connection and the descriptions and candidates of the media layer.
IceNext ==
    \/ nstarts = 0 /\ Start
    \/ \E k \in Conns : ConnectOk(k)
    \/ \E k \in Conns : ConnectInstall(k)
    \/ SendTask
    \/ \E k \in Conns : SendLoop(k)
    \/ \E p \in Players, type \in SdpTypes, sdp \in Descriptions :
          SendSdp(p, type, sdp)
    \/ \E p \in Players, idx \in 0 .. U32Max : AddIce(p, idx)

IceSpec == Init /\ [][IceNext]_vars

\* The frames that open and close sessions and those that end the stream.
SessFrames ==
    { f \in Frames : \/ f.ws # "text"
                     \/ f.text.tag \in {"playerConnected",
                                        "playerDisconnected"}
                        /\ f.text.arg \in Players }

\* One connection from start to stop, the sessions the server opens and
\* closes on it and the descriptions and candidates it relays.
SessNext ==
    \/ nstarts = 0 /\ Start
    \/ \E k \in Conns : ConnectOk(k)
    \/ \E k \in Conns : ConnectInstall(k)
    \/ \E k \in Conns, frame \in SessFrames : Receive(k, frame)
    \/ \E k \in Conns, frame \in SdpFrames : Receive(k, frame)
    \/ \E k \in Conns, frame \in IceFrames : Receive(k, frame)
    \/ SendTask
    \/ \E k \in Conns : SendLoop(k)
    \/ \E k \in Conns : SendLoopFail(k)
    \/ \E p \in Players : EndSession(p)
    \/ StopBegin
    \/ StopJoinConnect
    \/ StopJoinSend
    \/ StopJoinRecv
    \/ StopEnd

SessSpec == Init /\ [][SessNext]_vars

\* One connection, one description, and the operations of the media layer
\* with room for two of their messages to wait for the runtime.
OrderStart ==
    /\ PoolQuiet /\ EnabledInit /\ PipeInit /\ DrvInit /\ MsgInit /\ WrkInit
    /\ SigFresh
    /\ pending_room = MaxPending

OrderNext ==
    \/ nstarts = 0 /\ Start
    \/ \E k \in Conns : ConnectOk(k)
    \/ \E k \in Conns : ConnectInstall(k)
    \/ SendTask
    \/ \E k \in Conns : SendLoop(k)
    \/ \E p \in Players, type \in SdpTypes : SendSdp(p, type, <<Some("v")>>)
    \/ \E p \in Players : AddIce(p, 0)
    \/ \E p \in Players : EndSession(p)

OrderSpec == OrderStart /\ [][OrderNext]_vars

\* The identify request of the server.
IdentifyFrames == { f \in Frames : f.ws = "text" /\ f.text.tag = "identify" }

\* A description without media, one of one line and one of two.
FewDescriptions == {<< >>, <<Some("v")>>, <<None, Some("w")>>}

\* The operations that send, around one connection that succeeds or fails
\* and is stopped: before there is a sender, with it, and after it is gone.
OfflineNext ==
    \/ nstarts = 0 /\ Start
    \/ \E k \in Conns : ConnectOk(k)
    \/ \E k \in Conns : ConnectFail(k)
    \/ \E k \in Conns : ConnectInstall(k)
    \/ \E k \in Conns, frame \in IdentifyFrames : Receive(k, frame)
    \/ \E k \in Conns : RecvLocked(k)
    \/ SendTask
    \/ \E k \in Conns : SendLoop(k)
    \/ \E p \in Players, type \in SdpTypes, sdp \in FewDescriptions :
          SendSdp(p, type, sdp)
    \/ \E p \in Players, idx \in {0, U32Max} : AddIce(p, idx)
    \/ \E p \in Players : EndSession(p)
    \/ StopBegin
    \/ StopJoinConnect
    \/ StopJoinSend
    \/ StopJoinRecv
    \/ StopEnd

OfflineSpec == Init /\ [][OfflineNext]_vars

\* The decoder applied to every packet and to every encoded MouseMove.
DecodeStart ==
    PoolQuiet /\ EnabledInit /\ PipeInit /\ DrvInit /\ SigInit /\ DecodeInit
              /\ WrkInit

DecodeNext ==
    \/ Encode
    \/ Decode

DecodeSpec == DecodeStart /\ [][DecodeNext]_vars

\* One data channel, its callback and the host system that empties the queue.
ChannelNext ==
    \/ \E pkt \in ChannelPackets : OnMessageData(pkt)
    \/ TryIter

ChannelSpec == Init /\ [][ChannelNext]_vars

\* The consumers that come and go, their data channels and the two host
\* systems of the controller.
RegistryNext ==
    \/ \E peer_id \in Players : ConsumerAdded(peer_id)
    \/ \E peer_id \in Players : ConsumerRemoved(peer_id)
    \/ HandleControllers
    \/ \E h \in HandlerIds, pkt \in RegistryPackets :
          HandlerOnMessageData(h, pkt)
    \/ HandleControllerMessages

RegistrySpec == Init /\ [][RegistryNext]_vars

\* The Delivery Worker between the handler that feeds it, the drain that
\* empties its release queue and the shutdown of either channel.
WorkerNext ==
    \/ \E p \in Pools, b \in Buffers : SendJob(p, b)
    \/ CloseJobQueue
    \/ CloseReleaseChannel
    \/ \E ok \in BOOLEAN : WorkerReceive(ok)
    \/ WorkerRelease
    \/ WorkerStop
    \/ DrainReleases

WorkerSpec == Init /\ [][WorkerNext]_vars

==========================================================================
